---- MODULE Spec2Model ----
(***************************************************************************)
(* A model of getpaid_paynow: the Paynow V3 payment processor.             *)
(*                                                                         *)
(* Spec: PaynowProcessor.handle_callback driving the payment's finite-     *)
(* state machine, one notification at a time.  The FSM itself belongs to   *)
(* getpaid_core (built on the `transitions` library) and is modelled as a  *)
(* transition table; handle_callback is translated from processor.py.      *)
(* SpecConc: several handle_callback invocations for one payment in        *)
(* flight on one event loop.                                               *)
(* SpecVerify: PaynowProcessor.verify_callback and                         *)
(* PaynowClient._calculate_notification_signature.                         *)
(* SpecSign, SpecAmount: the pure helpers of PaynowClient.                 *)
(* SpecClient: the operations of PaynowClient, one after the other.        *)
(* SpecScope: a PaynowClient used in `async with` blocks.                  *)
(* SpecClientConc: operations in flight together on one PaynowClient.      *)
(* SpecProc: the methods of PaynowProcessor that talk to the gateway.      *)
(***************************************************************************)
EXTENDS Integers, Sequences, FiniteSets, TLC

VARIABLES
    payment,    \* the payment record the processor holds: FSM state, external_id
    last,       \* the last handle_callback call: notification, payment before/after, outcome,
                \* and whether the call before it delivered the same notification
    tasks,      \* concurrent handle_callback invocations: pc, notification, outcome
    start,      \* the payment as it was when the current round of deliveries began
    vcall,      \* the last verify_callback call: inputs, outcome, steps reached
    pcall,      \* the last application of a pure helper of PaynowClient: inputs, result
    client,     \* the PaynowClient object: last_response, _client, _owns_client
    ccall,      \* the client operation in progress or last completed: request, response, outcome
    wire,       \* every request handed to the transport so far, in order
    minted,     \* how many idempotency keys uuid4 has produced so far
    handles,    \* every transport handle (httpx.AsyncClient) created so far: by whom, open or closed
    scope       \* the `async with client` blocks entered and not yet exited, and those exited

vars == <<payment, last, tasks, start, vcall, pcall, client, ccall, wire, minted, handles, scope>>

(***************************************************************************)
(* Bounds.                                                                 *)
(***************************************************************************)
\* concurrent handle_callback invocations on one payment
NumTasks == 2
\* distinct gateway payment identifiers PAY-1 .. PAY-n
NumIds == 2

\* signature keys in play: key-1 is the merchant's, the others are foreign
NumKeys == 2
\* distinct non-empty notification bodies
NumBodies == 2

Task == 1..NumTasks

IdName(i) == "PAY-" \o ToString(i)
GatewayIds == {IdName(i) : i \in 1..NumIds}

(***************************************************************************)
(* Dictionaries (Python dict): a function on the set of keys present.      *)
(***************************************************************************)
Absent == "<absent>"

\* dict.get(key, default)
Get(d, k, default) == IF k \in DOMAIN d THEN d[k] ELSE default

\* truth value of a Python str: the empty string is falsy
Truthy(s) == s /= ""

(***************************************************************************)
(* types.py: the gateway's payment statuses.                               *)
(***************************************************************************)
PaynowPaymentStatus ==
    {"NEW", "PENDING", "CONFIRMED", "REJECTED", "ERROR", "EXPIRED", "ABANDONED"}

(***************************************************************************)
(* The payment FSM of getpaid_core (external collaborator): its states,    *)
(* its transition table, and the `transitions` library's may_trigger /     *)
(* trigger semantics (an illegal trigger raises MachineError).             *)
(***************************************************************************)
FsmStates ==
    {"NEW", "PREPARED", "PRE_AUTH", "IN_CHARGE", "PARTIAL", "PAID", "FAILED",
     "REFUND_STARTED", "REFUNDED"}

FsmTransitions ==
    { [trigger |-> "confirm_prepared", source |-> {"NEW"}, dest |-> "PREPARED"],
      [trigger |-> "confirm_lock", source |-> {"NEW", "PREPARED"}, dest |-> "PRE_AUTH"],
      [trigger |-> "confirm_charge_sent", source |-> {"PRE_AUTH"}, dest |-> "IN_CHARGE"],
      [trigger |-> "confirm_payment",
       source |-> {"PRE_AUTH", "PREPARED", "IN_CHARGE", "PARTIAL"}, dest |-> "PARTIAL"],
      [trigger |-> "mark_as_paid", source |-> {"PARTIAL"}, dest |-> "PAID"],
      [trigger |-> "release_lock", source |-> {"PRE_AUTH"}, dest |-> "REFUNDED"],
      [trigger |-> "start_refund", source |-> {"PAID", "PARTIAL"}, dest |-> "REFUND_STARTED"],
      [trigger |-> "cancel_refund", source |-> {"REFUND_STARTED"}, dest |-> "PARTIAL"],
      [trigger |-> "confirm_refund", source |-> {"REFUND_STARTED"}, dest |-> "PARTIAL"],
      [trigger |-> "mark_as_refunded", source |-> {"PARTIAL"}, dest |-> "REFUNDED"],
      [trigger |-> "fail", source |-> {"NEW", "PRE_AUTH", "PREPARED"}, dest |-> "FAILED"] }

\* payment.may_trigger(name)
may_trigger(status, name) ==
    \E t \in FsmTransitions : t.trigger = name /\ status \in t.source

\* hasattr(payment, name): the machine adds one method per trigger of its table
hasattr(name) == \E t \in FsmTransitions : t.trigger = name

\* payment.<name>(): the new state, or MachineError and the state unchanged
trigger(status, name) ==
    IF may_trigger(status, name)
    THEN [status |-> (CHOOSE t \in FsmTransitions :
                          t.trigger = name /\ status \in t.source).dest,
          error |-> "none"]
    ELSE [status |-> status, error |-> "MachineError"]

(***************************************************************************)
(* processor.py: PaynowProcessor.handle_callback.                          *)
(* A result is the payment after the call, the FSM triggers invoked in     *)
(* order, and the exception that left the call ("none": returned).         *)
(***************************************************************************)
\* contextlib.suppress(MachineError): what still propagates
suppress_MachineError(error) == IF error = "MachineError" THEN "none" ELSE error

\* mutant: the identifier is stored without the emptiness test
store_external_id_always(p, payment_id) == [p EXCEPT !.external_id = payment_id]

\* lines 155-156: if payment_id: self.payment.external_id = payment_id
store_external_id(p, payment_id) ==
    IF Truthy(payment_id) THEN [p EXCEPT !.external_id = payment_id] ELSE p

\* mutant: ABANDONED left out of the failure statuses
FailureStatuses_noAbandoned == {"REJECTED", "ERROR", "EXPIRED"}

\* lines 169-174: the statuses that ask for the "fail" transition
FailureStatuses == {"REJECTED", "ERROR", "EXPIRED", "ABANDONED"}

\* mutant: confirm_payment invoked without asking may_trigger first
confirmed_branch_noguard(p) ==
    LET r1 == trigger(p.status, "confirm_payment")
    IN  IF r1.error /= "none"
        THEN [payment |-> [p EXCEPT !.status = r1.status],
              calls |-> <<"confirm_payment">>,
              raised |-> r1.error]
        ELSE LET r2 == trigger(r1.status, "mark_as_paid")
             IN  [payment |-> [p EXCEPT !.status = r2.status],
                  calls |-> <<"confirm_payment", "mark_as_paid">>,
                  raised |-> suppress_MachineError(r2.error)]

\* mutant: may_trigger asked about the wrong transition
confirmed_branch_wrongguard(p) ==
    IF may_trigger(p.status, "confirm_prepared")
    THEN confirmed_branch_noguard(p)
    ELSE [payment |-> p, calls |-> <<>>, raised |-> "none"]

\* mutant: mark_as_paid forgotten after confirm_payment
confirmed_branch_nomark(p) ==
    IF may_trigger(p.status, "confirm_payment")
    THEN LET r1 == trigger(p.status, "confirm_payment")
         IN  [payment |-> [p EXCEPT !.status = r1.status],
              calls |-> <<"confirm_payment">>,
              raised |-> r1.error]
    ELSE [payment |-> p, calls |-> <<>>, raised |-> "none"]

\* lines 159-168: the CONFIRMED branch
confirmed_branch(p) ==
    IF may_trigger(p.status, "confirm_payment")
    THEN LET r1 == trigger(p.status, "confirm_payment")
         IN  IF r1.error /= "none"
             THEN [payment |-> [p EXCEPT !.status = r1.status],
                   calls |-> <<"confirm_payment">>,
                   raised |-> r1.error]
             ELSE LET r2 == trigger(r1.status, "mark_as_paid")
                  IN  [payment |-> [p EXCEPT !.status = r2.status],
                       calls |-> <<"confirm_payment", "mark_as_paid">>,
                       raised |-> suppress_MachineError(r2.error)]
    ELSE [payment |-> p, calls |-> <<>>, raised |-> "none"]

\* mutant: fail() invoked outside contextlib.suppress(MachineError)
failure_branch_nosuppress(p) ==
    LET r == trigger(p.status, "fail")
    IN  [payment |-> [p EXCEPT !.status = r.status],
         calls |-> <<"fail">>,
         raised |-> r.error]

\* mutant: a failure status written into the payment without asking the FSM
failure_branch_assign(p) ==
    [payment |-> [p EXCEPT !.status = "FAILED"], calls |-> <<>>, raised |-> "none"]

\* lines 175-177: the failure branch
failure_branch(p) ==
    IF hasattr("fail")
    THEN LET r == trigger(p.status, "fail")
         IN  [payment |-> [p EXCEPT !.status = r.status],
              calls |-> <<"fail">>,
              raised |-> suppress_MachineError(r.error)]
    ELSE [payment |-> p, calls |-> <<>>, raised |-> "none"]

\* lines 178-183: any other status is only logged
other_branch(p) == [payment |-> p, calls |-> <<>>, raised |-> "none"]

\* mutant: PENDING handled like CONFIRMED
handle_callback_pending(p, data) ==
    LET payment_id == Get(data, "paymentId", "")
        paynow_status == Get(data, "status", "")
        p1 == store_external_id(p, payment_id)
    IN  IF paynow_status \in {"CONFIRMED", "PENDING"} THEN confirmed_branch(p1)
        ELSE IF paynow_status \in FailureStatuses THEN failure_branch(p1)
        ELSE other_branch(p1)

\* lines 152-183
handle_callback(p, data) ==
    LET payment_id == Get(data, "paymentId", "")
        paynow_status == Get(data, "status", "")
        p1 == store_external_id(p, payment_id)
    IN  IF paynow_status = "CONFIRMED" THEN confirmed_branch(p1)
        ELSE IF paynow_status \in FailureStatuses THEN failure_branch(p1)
        ELSE other_branch(p1)

(***************************************************************************)
(* The notifications a gateway (or anyone) may deliver: paymentId absent,  *)
(* empty or an identifier; status absent, one of the seven, or unknown.    *)
(***************************************************************************)
PaymentIdField == {Absent, ""} \cup GatewayIds
StatusField == {Absent, "UNKNOWN"} \cup PaynowPaymentStatus

MkData(pid, st) ==
    [k \in (IF pid = Absent THEN {} ELSE {"paymentId"})
           \cup (IF st = Absent THEN {} ELSE {"status"})
       |-> IF k = "paymentId" THEN pid ELSE st]

Notifications == {MkData(pid, st) : pid \in PaymentIdField, st \in StatusField}

ExternalIds == {""} \cup GatewayIds
Payments == [status : FsmStates, external_id : ExternalIds]

(***************************************************************************)
(* client.py / processor.py: notification signatures.                      *)
(* A Python value is tagged with its type (str or bytes).  HMAC-SHA256 and *)
(* base64 are modelled symbolically, as an ideal MAC: the digest is a term *)
(* naming its key and message, so two digests are equal exactly when key   *)
(* and message are.                                                        *)
(***************************************************************************)
Str(v) == [t |-> "str", v |-> v]
Bytes(v) == [t |-> "bytes", v |-> v]

KeyName(i) == "key-" \o ToString(i)
SignatureKeys == {KeyName(i) : i \in 1..NumKeys}
BodyTexts == {""} \cup {"body-" \o ToString(i) : i \in 1..NumBodies}

\* x.encode(): defined on str only
encode(x) ==
    IF x.t = "str" THEN [error |-> "none", value |-> Bytes(x.v)]
    ELSE [error |-> "AttributeError", value |-> x]

\* hmac.new(key, msg, hashlib.sha256).digest()
hmac_sha256(key, msg) == Bytes("hmac-sha256(" \o key.v \o "," \o msg.v \o ")")

\* base64.b64encode(digest).decode()
b64encode_decode(digest) == "b64(" \o digest.v \o ")"

\* client.py lines 113-118; signature_key is a str, body whatever the caller passed
calculate_notification_signature(signature_key, body) ==
    LET k == encode(Str(signature_key))
        b == encode(body)
    IN  IF b.error /= "none"
        THEN [error |-> b.error, value |-> ""]
        ELSE [error |-> "none",
              value |-> b64encode_decode(hmac_sha256(k.value, b.value))]

\* a received value no ASCII str can hold
NonAsciiSignature == "<non-ascii>"

\* hmac.compare_digest(a, b) on two str: TypeError unless both are ASCII
compare_digest(a, b) ==
    IF a = NonAsciiSignature \/ b = NonAsciiSignature
    THEN [error |-> "TypeError", value |-> FALSE]
    ELSE [error |-> "none", value |-> (a = b)]

Returned == [exc |-> "none", msg |-> ""]
MissingSignature ==
    [exc |-> "InvalidCallbackError", msg |-> "Missing Signature header in notification"]
BadSignature == [exc |-> "InvalidCallbackError", msg |-> "BAD SIGNATURE"]
Raised(exc) == [exc |-> exc, msg |-> ""]

\* mutant: the expected signature is computed before the header is looked at
verify_callback_latecheck(signature_key, headers, kwargs) ==
    LET raw_body == Get(kwargs, "raw_body", Str(""))
        received_sig == Get(headers, "Signature", "")
        e == calculate_notification_signature(signature_key, raw_body)
    IN  IF e.error /= "none"
        THEN [outcome |-> Raised(e.error), computed |-> TRUE, compared |-> FALSE]
        ELSE IF ~Truthy(received_sig)
        THEN [outcome |-> MissingSignature, computed |-> TRUE, compared |-> FALSE]
        ELSE LET c == compare_digest(e.value, received_sig)
             IN  [outcome |-> IF c.error /= "none" THEN Raised(c.error)
                              ELSE IF c.value THEN Returned ELSE BadSignature,
                  computed |-> TRUE, compared |-> TRUE]

\* processor.py lines 113-135: the outcome, and whether a signature was computed
\* and compared on the way
verify_callback(signature_key, headers, kwargs) ==
    LET raw_body == Get(kwargs, "raw_body", Str(""))
        received_sig == Get(headers, "Signature", "")
    IN  IF ~Truthy(received_sig)
        THEN [outcome |-> MissingSignature, computed |-> FALSE, compared |-> FALSE]
        ELSE LET e == calculate_notification_signature(signature_key, raw_body)
             IN  IF e.error /= "none"
                 THEN [outcome |-> Raised(e.error), computed |-> TRUE, compared |-> FALSE]
                 ELSE LET c == compare_digest(e.value, received_sig)
                      IN  [outcome |-> IF c.error /= "none" THEN Raised(c.error)
                                       ELSE IF c.value THEN Returned ELSE BadSignature,
                           computed |-> TRUE, compared |-> TRUE]

(***************************************************************************)
(* The calls a web framework may make: a Signature header absent, empty,   *)
(* garbage, non-ASCII, or the signature some key gives some body, under    *)
(* the name "Signature" or "signature"; the raw body absent, a str or      *)
(* bytes.                                                                  *)
(***************************************************************************)
\* base64(HMAC-SHA256(key, body)) as the sender computes it over the body's bytes
SignatureOf(key, text) == b64encode_decode(hmac_sha256(Bytes(key), Bytes(text)))

SignatureValues ==
    {"", "bad_signature", NonAsciiSignature}
        \cup {SignatureOf(k, b) : k \in SignatureKeys, b \in BodyTexts}

MkHeaders(upper, lower) ==
    [k \in (IF upper = Absent THEN {} ELSE {"Signature"})
           \cup (IF lower = Absent THEN {} ELSE {"signature"})
       |-> IF k = "Signature" THEN upper ELSE lower]

\* one signature header under either name, or the same value under both
HeaderDicts ==
    {MkHeaders(u, Absent) : u \in {Absent} \cup SignatureValues}
        \cup {MkHeaders(Absent, l) : l \in SignatureValues}
        \cup {MkHeaders(u, u) : u \in SignatureValues}

RawBodies == {Str(b) : b \in BodyTexts} \cup {Bytes(b) : b \in BodyTexts}
KwargDicts == {<<>>} \cup {[k \in {"raw_body"} |-> b] : b \in RawBodies}

\* notifications for one payment all carry that payment's gateway identifier
ConcNotifications == {MkData(IdName(1), st) : st \in StatusField}

NoCall == [op |-> "none"]

\* last_response before any call: None, which has no status code and no content
NoResponse == [status_code |-> 0, content |-> "<None>"]
\* _client before any scope: None; a handle is the index of its entry in handles
NoHandle == 0
\* PaynowClient.__init__
NewClient == [last_response |-> NoResponse, _client |-> NoHandle, _owns_client |-> FALSE]
\* no `async with client` block entered yet; a block names the handle its
\* __aenter__ made and whether another block of the client overlapped it; an
\* exited block also how it ended
NoScope == [blocks |-> <<>>, exited |-> <<>>]

NoData == MkData(Absent, Absent)
IdleTask == [pc |-> "idle", data |-> NoData, raised |-> "none", overlapped |-> FALSE]
AllIdle(ts) == \A i \in Task : ts[i].pc = "idle"

(***************************************************************************)
(* Spec: notifications handled one at a time.                              *)
(***************************************************************************)
Init ==
    /\ payment \in Payments
    /\ last = NoCall
    /\ tasks = [i \in Task |-> IdleTask]
    /\ start = payment
    /\ vcall = NoCall
    /\ pcall = NoCall
    /\ client = NewClient
    /\ ccall = NoCall
    /\ wire = <<>>
    /\ minted = 0
    /\ handles = <<>>
    /\ scope = NoScope

\* await processor.handle_callback(data=data, headers={})
HandleCallback(data) ==
    /\ LET r == handle_callback(payment, data)
       IN  /\ payment' = r.payment
           /\ last' = [op |-> "handle_callback", data |-> data, pre |-> payment,
                       post |-> r.payment, calls |-> r.calls, raised |-> r.raised,
                       again |-> IF last.op = "handle_callback"
                                 THEN last.data = data ELSE FALSE]
    /\ start' = payment'
    /\ UNCHANGED <<tasks, vcall, pcall, client, ccall, wire, minted, handles, scope>>

Next == \E data \in Notifications : HandleCallback(data)

Spec == Init /\ [][Next]_vars

(***************************************************************************)
(* SpecConc: several invocations for one payment on one event loop.  The   *)
(* body of handle_callback holds no await, so once an invocation is        *)
(* resumed it runs to its end before any other coroutine is resumed; the   *)
(* event loop chooses the order in which pending invocations run.          *)
(***************************************************************************)
\* a notification arrives and a handle_callback invocation is scheduled for it
Deliver(i, data) ==
    /\ tasks[i].pc = "idle"
    /\ LET others == {j \in Task : j /= i /\ tasks[j].pc = "pending"}
       IN  tasks' = [j \in Task |->
                       IF j = i
                       THEN [pc |-> "pending", data |-> data, raised |-> "none",
                             overlapped |-> others /= {}]
                       ELSE IF j \in others
                            THEN [tasks[j] EXCEPT !.overlapped = TRUE]
                            ELSE tasks[j]]
    /\ start' = IF AllIdle(tasks) THEN payment ELSE start
    /\ UNCHANGED <<payment, last, vcall, pcall, client, ccall, wire, minted, handles, scope>>

\* the event loop resumes invocation i, which runs handle_callback to its end
RunCallback(i) ==
    /\ tasks[i].pc = "pending"
    /\ LET r == handle_callback(payment, tasks[i].data)
       IN  /\ payment' = r.payment
           /\ tasks' = [tasks EXCEPT ![i].pc = "done", ![i].raised = r.raised]
    /\ UNCHANGED <<last, start, vcall, pcall, client, ccall, wire, minted, handles, scope>>

\* the callers take their results; the next round of deliveries may begin
Collect ==
    /\ \E i \in Task : tasks[i].pc = "done"
    /\ \A i \in Task : tasks[i].pc \in {"idle", "done"}
    /\ tasks' = [i \in Task |-> IdleTask]
    /\ start' = payment
    /\ UNCHANGED <<payment, last, vcall, pcall, client, ccall, wire, minted, handles, scope>>

NextConc ==
    \/ \E i \in Task, data \in ConcNotifications : Deliver(i, data)
    \/ \E i \in Task : RunCallback(i)
    \/ Collect

SpecConc == Init /\ [][NextConc]_vars

(***************************************************************************)
(* SpecVerify: verify_callback called with every header map and raw body,  *)
(* by a processor configured with the merchant's signature key.            *)
(***************************************************************************)
InitVerify ==
    /\ payment = [status |-> "NEW", external_id |-> ""]
    /\ last = NoCall
    /\ tasks = [i \in Task |-> IdleTask]
    /\ start = payment
    /\ vcall = NoCall
    /\ pcall = NoCall
    /\ client = NewClient
    /\ ccall = NoCall
    /\ wire = <<>>
    /\ minted = 0
    /\ handles = <<>>
    /\ scope = NoScope

\* await processor.verify_callback(data=data, headers=headers, **kwargs)
VerifyCallback(headers, kwargs) ==
    /\ LET key == KeyName(1)
           r == verify_callback(key, headers, kwargs)
       IN  vcall' = [op |-> "verify_callback", signature_key |-> key,
                     headers |-> headers, kwargs |-> kwargs,
                     outcome |-> r.outcome, computed |-> r.computed,
                     compared |-> r.compared]
    /\ UNCHANGED <<payment, last, tasks, start, pcall, client, ccall, wire, minted, handles, scope>>

NextVerify == \E headers \in HeaderDicts, kwargs \in KwargDicts : VerifyCallback(headers, kwargs)

SpecVerify == InitVerify /\ [][NextVerify]_vars

(***************************************************************************)
(* Amount conversion.  A Python int and the coefficient of a Decimal are   *)
(* unbounded, so both are modelled as sequences of decimal digits, most    *)
(* significant first, without leading zeros (zero is <<0>>).  A Decimal is *)
(* a coefficient and an exponent; amounts are finite and not negative.     *)
(* Arithmetic is that of the decimal module under its default context:     *)
(* results are rounded half-even to prec significant digits.               *)
(***************************************************************************)
\* decimal.DefaultContext.prec, under which client.py evaluates / and *
prec == 28

Zeros(n) == [i \in 1..n |-> 0]
IsZero(ds) == \A i \in 1..Len(ds) : ds[i] = 0

RECURSIVE strip_leading(_)
strip_leading(ds) ==
    IF Len(ds) > 1 /\ ds[1] = 0 THEN strip_leading(Tail(ds)) ELSE ds

\* the coefficient plus one
RECURSIVE increment(_)
increment(ds) ==
    IF ds = <<>> THEN <<1>>
    ELSE LET n == Len(ds)
         IN  IF ds[n] < 9 THEN [ds EXCEPT ![n] = ds[n] + 1]
             ELSE Append(increment(SubSeq(ds, 1, n - 1)), 0)

\* the digits of a natural number
RECURSIVE digits(_)
digits(n) == IF n < 10 THEN <<n>> ELSE Append(digits(n \div 10), n % 10)

Dec(coefficient, exp) == [int |-> coefficient, exp |-> exp]

\* Decimal(n) of an int n: exact whatever the precision
Decimal(n) == Dec(n, 0)

\* Decimal._fix: a coefficient longer than prec digits is rounded half-even
fix(d) ==
    LET n == Len(d.int)
    IN  IF n <= prec THEN d
        ELSE LET kept == SubSeq(d.int, 1, prec)
                 dropped == SubSeq(d.int, prec + 1, n)
                 rest == SubSeq(dropped, 2, Len(dropped))
                 up == \/ dropped[1] > 5
                       \/ dropped[1] = 5 /\ ~IsZero(rest)
                       \/ dropped[1] = 5 /\ IsZero(rest) /\ kept[prec] % 2 = 1
                 rounded == IF up THEN increment(kept) ELSE kept
             IN  IF Len(rounded) > prec
                 THEN Dec(SubSeq(rounded, 1, prec), d.exp + (n - prec) + 1)
                 ELSE Dec(rounded, d.exp + (n - prec))

\* an exact quotient is brought as close to the ideal exponent as its zeros allow
RECURSIVE strip_to_ideal(_, _)
strip_to_ideal(d, ideal_exp) ==
    LET n == Len(d.int)
    IN  IF d.exp < ideal_exp /\ n > 1 /\ d.int[n] = 0
        THEN strip_to_ideal(Dec(SubSeq(d.int, 1, n - 1), d.exp + 1), ideal_exp)
        ELSE d

\* d / 100: the quotient by 10^2 is the same digits two places down, then rounded
truediv_100(d) ==
    IF IsZero(d.int) THEN Dec(<<0>>, d.exp)
    ELSE fix(strip_to_ideal(Dec(d.int, d.exp - 2), d.exp))

\* d * 100: the product has the digits of d followed by 00, then rounded
mul_100(d) ==
    IF IsZero(d.int) THEN Dec(<<0>>, d.exp)
    ELSE fix(Dec(d.int \o <<0, 0>>, d.exp))

\* int(d): the integral part, truncated toward zero
to_int(d) ==
    IF d.exp >= 0 THEN strip_leading(d.int \o Zeros(d.exp))
    ELSE IF Len(d.int) + d.exp <= 0 THEN <<0>>
         ELSE strip_leading(SubSeq(d.int, 1, Len(d.int) + d.exp))

\* PaynowClient._to_lowest_unit
to_lowest_unit(amount) == to_int(mul_100(amount))

\* PaynowClient._from_lowest_unit
from_lowest_unit(amount) == truediv_100(Decimal(amount))

\* amounts in minor units: the small ones, and long ones around the precision
MaxSmall == 30
MaxFill == 27
Tails == {<<0, 0>>, <<0, 1>>, <<5, 0>>, <<9, 9>>}
MinorAmounts ==
    {digits(n) : n \in 0..MaxSmall}
    \cup {<<lead>> \o [i \in 1..k |-> fill] \o tail :
             lead \in {1, 9}, fill \in {0, 9}, k \in (MaxFill - 4)..MaxFill, tail \in Tails}

\* amounts in the main unit: Decimal("0.01"), Decimal("49.99"), Decimal("1.005"), Decimal("100") ...
MaxCoefficient == 12
DecimalAmounts ==
    {Dec(digits(n), e) : n \in 0..MaxCoefficient, e \in -3..0}
    \cup {Dec(<<4, 9, 9, 9>>, -2), Dec(<<4, 9, 9, 9, 9>>, -3), Dec(<<1, 0, 0, 5>>, -3)}

(***************************************************************************)
(* The pure helpers of PaynowClient.  A Python dict is modelled here by    *)
(* the sequence of its (key, value) items in insertion order, keys         *)
(* distinct; text that goes into JSON is drawn from finite sets, so that   *)
(* string order and JSON escaping are tables over those sets.              *)
(***************************************************************************)
\* the most items a query-parameter dict holds
MaxParams == 2

\* query-parameter names, listed in code-point order (Python's str <)
ParamNames == <<"a", "amount", "currency">>
ParamValues == {"10000", "PLN"}

\* a < b on the str values in play
str_lt(a, b) ==
    LET rank(s) == CHOOSE i \in 1..Len(ParamNames) : ParamNames[i] = s
    IN  rank(a) < rank(b)

\* sorted(d.items()) kept unsorted: the items in insertion order
sorted_items_unsorted(items) == items

\* sorted(d.items()): the items ordered by key (keys are distinct)
RECURSIVE sorted_items(_)
sorted_items(items) ==
    IF items = <<>> THEN <<>>
    ELSE LET least == CHOOSE i \in 1..Len(items) :
                         \A j \in 1..Len(items) : j = i \/ str_lt(items[i][1], items[j][1])
             rest == [j \in 1..(Len(items) - 1) |->
                        IF j < least THEN items[j] ELSE items[j + 1]]
         IN  <<items[least]>> \o sorted_items(rest)

Quote == "\""
\* a double quote as json.dumps writes it inside a string
EscapedQuote == "\\\""

\* the decimal literal of an int
RECURSIVE digits_str(_)
digits_str(ds) == IF ds = <<>> THEN "" ELSE ToString(ds[1]) \o digits_str(Tail(ds))

\* json.dumps(data, default=str) of create_payment with the required arguments
\* only, as text quoted with q
payment_body(q, amount_int) ==
    "{" \o q \o "amount" \o q \o ": " \o digits_str(amount_int) \o ", "
        \o q \o "currency" \o q \o ": " \o q \o "PLN" \o q \o ", "
        \o q \o "externalId" \o q \o ": " \o q \o "order-001" \o q \o ", "
        \o q \o "description" \o q \o ": " \o q \o "Order #001" \o q \o ", "
        \o q \o "buyer" \o q \o ": {" \o q \o "email" \o q \o ": "
        \o q \o "buyer@example.com" \o q \o "}}"

\* json.dumps(data, default=str) of create_refund without a reason
refund_body(q, amount_int) ==
    "{" \o q \o "amount" \o q \o ": " \o digits_str(amount_int) \o "}"

\* the amounts the client operations are called with: 49.99, 100, 1.005
ClientAmounts == {Dec(<<4, 9, 9, 9>>, -2), Dec(<<1, 0, 0>>, 0), Dec(<<1, 0, 0, 5>>, -3)}

\* a str that may hold double quotes: the text itself, and the text as
\* json.dumps writes it inside a string, each " escaped as \"
Text(raw, escaped) == [none |-> FALSE, raw |-> raw, escaped |-> escaped]
\* None where such a str is optional
NoBody == [none |-> TRUE, raw |-> "", escaped |-> ""]

\* the body of create_payment for an amount in minor units
PaymentBody(amount_int) ==
    Text(payment_body(Quote, amount_int), payment_body(EscapedQuote, amount_int))

\* the body of create_refund for an amount in minor units
RefundBody(amount_int) ==
    Text(refund_body(Quote, amount_int), refund_body(EscapedQuote, amount_int))

\* json.dumps of a str that may hold double quotes
json_text(text) == Quote \o text.escaped \o Quote

\* json.dumps of a str that holds no character to escape: a key, a parameter value
json_str(s) == Quote \o s \o Quote

\* json.dumps of the items of a dict of str, item separator given
RECURSIVE json_items(_, _, _)
json_items(items, item_sep, key_sep) ==
    IF items = <<>> THEN ""
    ELSE json_str(items[1][1]) \o key_sep \o json_str(items[1][2])
         \o (IF Len(items) > 1 THEN item_sep ELSE "")
         \o json_items(Tail(items), item_sep, key_sep)

\* json.dumps of a dict of str
json_dict(items, item_sep, key_sep) == "{" \o json_items(items, item_sep, key_sep) \o "}"

\* client.py lines 91-96: json.dumps(payload, separators=(",", ":"))
payload_json(sorted_headers, sorted_params, body) ==
    "{" \o json_str("headers") \o ":" \o json_dict(sorted_headers, ",", ":") \o ","
        \o json_str("parameters") \o ":" \o json_dict(sorted_params, ",", ":") \o ","
        \o json_str("body") \o ":" \o json_text(body) \o "}"

\* PaynowClient._calculate_request_signature
calculate_request_signature(signature_key, api_key, idempotency_key, body, parameters) ==
    LET headers_dict == << <<"Api-Key", api_key>>, <<"Idempotency-Key", idempotency_key>> >>
        \* "Api-Key" < "Idempotency-Key": sorting leaves the two headers as they are
        sorted_headers == headers_dict
        sorted_params == sorted_items(parameters)
        payload == payload_json(sorted_headers, sorted_params, body)
        digest == hmac_sha256(encode(Str(signature_key)).value, encode(Str(payload)).value)
    IN  b64encode_decode(digest)

ParamNameSet == {ParamNames[i] : i \in 1..Len(ParamNames)}

\* the dicts of query parameters: up to MaxParams items, in every insertion order
ParamDicts ==
    UNION {{items \in [1..n -> ParamNameSet \X ParamValues] :
               \A i, j \in 1..n : i /= j => items[i][1] /= items[j][1]} : n \in 0..MaxParams}

\* the items of a dict as a set: what two dicts that differ in order only share
Items(d) == {d[i] : i \in 1..Len(d)}

ApiKey == "api-key"
\* request bodies: none, an empty object, a payment
RequestBodies ==
    {Text("", ""), Text("{}", "{}"), Text("{\"amount\":10000}", "{\\\"amount\\\":10000}")}
\* idempotency keys as uuid4 produces them, numbered by order of generation
MaxKeys == 2
uuid(n) == "uuid-" \o ToString(n)

(***************************************************************************)
(* The request signature down to the bits.  TLC cannot take a string       *)
(* apart, so here a str is the sequence of its characters and bytes are    *)
(* numbers 0..255; SHA-256 follows FIPS 180-4, HMAC follows RFC 2104 and   *)
(* base64 follows RFC 4648, which is what hashlib, hmac and base64         *)
(* compute.                                                                *)
(***************************************************************************)
\* a 32-bit word is the pair of its 16-bit halves, high half first
\* a xor b and a and b of two numbers of n bits
RECURSIVE xor_bits(_, _, _)
xor_bits(a, b, n) ==
    IF n = 0 THEN 0 ELSE ((a + b) % 2) + 2 * xor_bits(a \div 2, b \div 2, n - 1)

RECURSIVE and_bits(_, _, _)
and_bits(a, b, n) ==
    IF n = 0 THEN 0 ELSE ((a % 2) * (b % 2)) + 2 * and_bits(a \div 2, b \div 2, n - 1)

\* bitwise operations, addition modulo 2^32, rotation and shift of words
Xor(u, v) == <<xor_bits(u[1], v[1], 16), xor_bits(u[2], v[2], 16)>>
And(u, v) == <<and_bits(u[1], v[1], 16), and_bits(u[2], v[2], 16)>>
Not(u) == <<65535 - u[1], 65535 - u[2]>>
Add(u, v) ==
    LET lo == u[2] + v[2]
        hi == u[1] + v[1] + (lo \div 65536)
    IN  <<hi % 65536, lo % 65536>>

RECURSIVE Rotr(_, _)
Rotr(u, n) ==
    IF n >= 16 THEN Rotr(<<u[2], u[1]>>, n - 16)
    ELSE IF n = 0 THEN u
    ELSE LET p == 2 ^ n
             q == 2 ^ (16 - n)
         IN  <<(u[1] \div p) + (u[2] % p) * q, (u[2] \div p) + (u[1] % p) * q>>

Shr(u, n) ==
    LET p == 2 ^ n
        q == 2 ^ (16 - n)
    IN  <<u[1] \div p, (u[2] \div p) + (u[1] % p) * q>>

\* FIPS 180-4, section 4.1.2
Ch(e, f, g) == Xor(And(e, f), And(Not(e), g))
Maj(a, b, c) == Xor(Xor(And(a, b), And(a, c)), And(b, c))
BigSigma0(a) == Xor(Xor(Rotr(a, 2), Rotr(a, 13)), Rotr(a, 22))
BigSigma1(e) == Xor(Xor(Rotr(e, 6), Rotr(e, 11)), Rotr(e, 25))
SmallSigma0(w) == Xor(Xor(Rotr(w, 7), Rotr(w, 18)), Shr(w, 3))
SmallSigma1(w) == Xor(Xor(Rotr(w, 17), Rotr(w, 19)), Shr(w, 10))

\* FIPS 180-4: the round constants and the initial hash value of SHA-256
K == <<
      <<17034, 12184>>, <<28983, 17553>>, <<46528, 64463>>, <<59829, 56229>>,
      <<14678, 49755>>, <<23025, 4593>>, <<37439, 33444>>, <<43804, 24277>>,
      <<55303, 43672>>, <<4739, 23297>>, <<9265, 34238>>, <<21772, 32195>>,
      <<29374, 23924>>, <<32990, 45566>>, <<39900, 1703>>, <<49563, 61812>>,
      <<58523, 27073>>, <<61374, 18310>>, <<4033, 40390>>, <<9228, 41420>>,
      <<11753, 11375>>, <<19060, 33962>>, <<23728, 43484>>, <<30457, 35034>>,
      <<38974, 20818>>, <<43057, 50797>>, <<45059, 10184>>, <<48985, 32711>>,
      <<50912, 3059>>, <<54695, 37191>>, <<1738, 25425>>, <<5161, 10599>>,
      <<10167, 2693>>, <<11803, 8504>>, <<19756, 28156>>, <<21304, 3347>>,
      <<25866, 29524>>, <<30314, 2747>>, <<33218, 51502>>, <<37490, 11397>>,
      <<41663, 59553>>, <<43034, 26187>>, <<49739, 35696>>, <<51052, 20899>>,
      <<53650, 59417>>, <<54937, 1572>>, <<62478, 13701>>, <<4202, 41072>>,
      <<6564, 49430>>, <<7735, 27656>>, <<10056, 30540>>, <<13488, 48309>>,
      <<14620, 3251>>, <<20184, 43594>>, <<23452, 51791>>, <<26670, 28659>>,
      <<29839, 33518>>, <<30885, 25455>>, <<33992, 30740>>, <<36039, 520>>,
      <<37054, 65530>>, <<42064, 27883>>, <<48889, 41975>>, <<50801, 30962>> >>
H0 == <<
      <<27145, 58983>>, <<47975, 44677>>, <<15470, 62322>>, <<42319, 62778>>,
      <<20750, 21119>>, <<39685, 26764>>, <<8067, 55723>>, <<23520, 52505>> >>

\* the message schedule: 16 words of the block extended to 64
RECURSIVE Schedule(_)
Schedule(w) ==
    IF Len(w) = 64 THEN w
    ELSE LET t == Len(w) + 1
         IN  Schedule(Append(w, Add(Add(SmallSigma1(w[t - 2]), w[t - 7]),
                                    Add(SmallSigma0(w[t - 15]), w[t - 16]))))

\* the 64 rounds over the working variables a..h
RECURSIVE Rounds(_, _, _)
Rounds(s, w, t) ==
    IF Len(s) < 8 \/ t > 64 THEN s
    ELSE LET t1 == Add(Add(Add(s[8], BigSigma1(s[5])), Add(Ch(s[5], s[6], s[7]), K[t])), w[t])
             t2 == Add(BigSigma0(s[1]), Maj(s[1], s[2], s[3]))
         IN  Rounds(<<Add(t1, t2), s[1], s[2], s[3], Add(s[4], t1), s[5], s[6], s[7]>>, w, t + 1)

\* one block folded into the hash value
Compress(h, block) ==
    LET s == Rounds(h, Schedule(block), 1)
    IN  <<Add(h[1], s[1]), Add(h[2], s[2]), Add(h[3], s[3]), Add(h[4], s[4]),
          Add(h[5], s[5]), Add(h[6], s[6]), Add(h[7], s[7]), Add(h[8], s[8])>>

\* padding: 0x80, zeros up to 56 mod 64, the length in bits as 8 bytes
ZeroBytes(n) == [i \in 1..n |-> 0]

Pad(msg) ==
    LET n == Len(msg)
        z == (119 - (n % 64)) % 64
        bits == n * 8
    IN  msg \o <<128>> \o ZeroBytes(z) \o <<0, 0, 0, 0>>
            \o <<bits \div 16777216, (bits \div 65536) % 256, (bits \div 256) % 256, bits % 256>>

\* the blocks of 64 bytes, each as 16 big-endian words, folded in turn
RECURSIVE Blocks(_, _)
Blocks(h, bytes) ==
    IF bytes = <<>> THEN h
    ELSE LET block == [i \in 1..16 |->
                         <<bytes[4 * i - 3] * 256 + bytes[4 * i - 2],
                           bytes[4 * i - 1] * 256 + bytes[4 * i]>>]
         IN  Blocks(Compress(h, block), SubSeq(bytes, 65, Len(bytes)))

\* the bytes of a sequence of words, big-endian
RECURSIVE WordBytes(_)
WordBytes(ws) ==
    IF ws = <<>> THEN <<>>
    ELSE <<ws[1][1] \div 256, ws[1][1] % 256, ws[1][2] \div 256, ws[1][2] % 256>>
         \o WordBytes(Tail(ws))

\* hashlib.sha256(msg).digest()
sha256(msg) == WordBytes(Blocks(H0, Pad(msg)))


\* hmac.new(key, msg, hashlib.sha256).digest(), RFC 2104 with blocks of 64 bytes
hmac_digest(key, msg) ==
    LET k == IF Len(key) > 64 THEN sha256(key) ELSE key
        block == k \o ZeroBytes(64 - Len(k))
        ipad == [i \in 1..64 |-> xor_bits(block[i], 54, 8)]
        opad == [i \in 1..64 |-> xor_bits(block[i], 92, 8)]
    IN  sha256(opad \o sha256(ipad \o msg))

\* the concatenation of parts[lo..hi]
RECURSIVE concat(_, _, _)
concat(parts, lo, hi) ==
    IF lo > hi THEN <<>>
    ELSE IF lo = hi THEN parts[lo]
    ELSE LET mid == (lo + hi) \div 2
         IN  concat(parts, lo, mid) \o concat(parts, mid + 1, hi)

\* the text of a sequence of characters
RECURSIVE join(_, _, _)
join(cs, lo, hi) ==
    IF lo > hi THEN ""
    ELSE IF lo = hi THEN cs[lo]
    ELSE LET mid == (lo + hi) \div 2
         IN  join(cs, lo, mid) \o join(cs, mid + 1, hi)

Base64Alphabet ==
    <<"A", "B", "C", "D", "E", "F", "G", "H", "I", "J", "K", "L", "M", "N", "O", "P", "Q",
      "R", "S", "T", "U", "V", "W", "X", "Y", "Z", "a", "b", "c", "d", "e", "f", "g", "h",
      "i", "j", "k", "l", "m", "n", "o", "p", "q", "r", "s", "t", "u", "v", "w", "x", "y",
      "z", "0", "1", "2", "3", "4", "5", "6", "7", "8", "9", "+", "/">>

\* base64.b64encode(data).decode(): three bytes to four characters, = for padding
b64encode(data) ==
    LET n == Len(data)
        at(i) == IF i <= n THEN data[i] ELSE 0
        group(g) ==
            LET b1 == at(3 * g - 2)
                b2 == at(3 * g - 1)
                b3 == at(3 * g)
            IN  <<Base64Alphabet[(b1 \div 4) + 1],
                  Base64Alphabet[(b1 % 4) * 16 + (b2 \div 16) + 1],
                  IF 3 * g - 1 <= n THEN Base64Alphabet[(b2 % 16) * 4 + (b3 \div 64) + 1] ELSE "=",
                  IF 3 * g <= n THEN Base64Alphabet[(b3 % 64) + 1] ELSE "=">>
        groups == (n + 2) \div 3
    IN  concat([g \in 1..groups |-> group(g)], 1, groups)

\* the printable ASCII characters, from code 32 on (no text in play holds code 96)
Printable ==
    <<" ", "!", "\"", "#", "$", "%", "&", "'", "(", ")", "*", "+", ",", "-", ".", "/", "0",
      "1", "2", "3", "4", "5", "6", "7", "8", "9", ":", ";", "<", "=", ">", "?", "@", "A",
      "B", "C", "D", "E", "F", "G", "H", "I", "J", "K", "L", "M", "N", "O", "P", "Q", "R",
      "S", "T", "U", "V", "W", "X", "Y", "Z", "[", "\\", "]", "^", "_", "<96>", "a", "b", "c",
      "d", "e", "f", "g", "h", "i", "j", "k", "l", "m", "n", "o", "p", "q", "r", "s", "t",
      "u", "v", "w", "x", "y", "z", "{", "|", "}", "~">>

\* ord(c)
ord(c) == 31 + (CHOOSE i \in 1..Len(Printable) : Printable[i] = c)

\* text.encode(): the bytes of a text of ASCII characters
encode_chars(text) == [i \in 1..Len(text) |-> ord(text[i])]

\* a < b for two str, character by character by code point
RECURSIVE chars_lt(_, _)
chars_lt(a, b) ==
    IF b = <<>> THEN FALSE
    ELSE IF a = <<>> THEN TRUE
    ELSE IF a[1] /= b[1] THEN ord(a[1]) < ord(b[1])
    ELSE chars_lt(Tail(a), Tail(b))

\* sorted(d.items()) for keys that are sequences of characters
RECURSIVE sorted_items_chars(_)
sorted_items_chars(items) ==
    IF items = <<>> THEN <<>>
    ELSE LET least == CHOOSE i \in 1..Len(items) :
                         \A j \in 1..Len(items) : j = i \/ chars_lt(items[i][1], items[j][1])
             rest == [j \in 1..(Len(items) - 1) |->
                        IF j < least THEN items[j] ELSE items[j + 1]]
         IN  <<items[least]>> \o sorted_items_chars(rest)

\* json.dumps of a str: in quotes, " and \ escaped
json_str_chars(text) ==
    LET escaped(c) == IF c = "\"" \/ c = "\\" THEN <<"\\", c>> ELSE <<c>>
    IN  <<"\"">> \o concat([i \in 1..Len(text) |-> escaped(text[i])], 1, Len(text)) \o <<"\"">>

\* json.dumps of a dict of str
json_dict_chars(items, item_sep, key_sep) ==
    LET item(i) == json_str_chars(items[i][1]) \o key_sep \o json_str_chars(items[i][2])
                   \o (IF i < Len(items) THEN item_sep ELSE <<>>)
    IN  <<"{">> \o concat([i \in 1..Len(items) |-> item(i)], 1, Len(items)) \o <<"}">>

\* mutant: json.dumps with its default separators, ", " and ": "
payload_json_chars_default_separators(sorted_headers, sorted_params, body) ==
    <<"{">> \o json_str_chars(<<"h", "e", "a", "d", "e", "r", "s">>) \o <<":", " ">>
            \o json_dict_chars(sorted_headers, <<",", " ">>, <<":", " ">>) \o <<",", " ">>
            \o json_str_chars(<<"p", "a", "r", "a", "m", "e", "t", "e", "r", "s">>) \o <<":", " ">>
            \o json_dict_chars(sorted_params, <<",", " ">>, <<":", " ">>) \o <<",", " ">>
            \o json_str_chars(<<"b", "o", "d", "y">>) \o <<":", " ">> \o json_str_chars(body)
            \o <<"}">>

\* client.py lines 91-96 on characters: json.dumps(payload, separators=(",", ":"))
payload_json_chars(sorted_headers, sorted_params, body) ==
    <<"{">> \o json_str_chars(<<"h", "e", "a", "d", "e", "r", "s">>) \o <<":">>
            \o json_dict_chars(sorted_headers, <<",">>, <<":">>) \o <<",">>
            \o json_str_chars(<<"p", "a", "r", "a", "m", "e", "t", "e", "r", "s">>) \o <<":">>
            \o json_dict_chars(sorted_params, <<",">>, <<":">>) \o <<",">>
            \o json_str_chars(<<"b", "o", "d", "y">>) \o <<":">> \o json_str_chars(body)
            \o <<"}">>

\* PaynowClient._calculate_request_signature, computed on characters and bytes
calculate_request_signature_chars(signature_key, api_key, idempotency_key, body, parameters) ==
    LET headers_dict ==
            << <<<<"A", "p", "i", "-", "K", "e", "y">>, api_key>>,
               <<<<"I", "d", "e", "m", "p", "o", "t", "e", "n", "c", "y", "-", "K", "e", "y">>,
                 idempotency_key>> >>
        sorted_headers == sorted_items_chars(headers_dict)
        sorted_params == sorted_items_chars(parameters)
        payload == payload_json_chars(sorted_headers, sorted_params, body)
        digest == hmac_digest(encode_chars(signature_key), encode_chars(payload))
        signature == b64encode(digest)
    IN  join(signature, 1, Len(signature))

\* "97a55694-5478-43b5-b406-fb49ebfdd2b5"
VectorApiKey ==
    <<"9", "7", "a", "5", "5", "6", "9", "4", "-", "5", "4", "7", "8", "-", "4", "3", "b",
      "5", "-", "b", "4", "0", "6", "-", "f", "b", "4", "9", "e", "b", "f", "d", "d", "2",
      "b", "5">>
\* "d243fdb3-c287-484a-bb9c-58536f2794c1"
VectorIdempotencyKey ==
    <<"d", "2", "4", "3", "f", "d", "b", "3", "-", "c", "2", "8", "7", "-", "4", "8", "4",
      "a", "-", "b", "b", "9", "c", "-", "5", "8", "5", "3", "6", "f", "2", "7", "9", "4",
      "c", "1">>
\* "b305b996-bca5-4404-a0b7-2ccea3d2b64b"
VectorSignatureKey ==
    <<"b", "3", "0", "5", "b", "9", "9", "6", "-", "b", "c", "a", "5", "-", "4", "4", "0",
      "4", "-", "a", "0", "b", "7", "-", "2", "c", "c", "e", "a", "3", "d", "2", "b", "6",
      "4", "b">>

\* the str of a sequence of characters
text(cs) == join(cs, 1, Len(cs))

\* the signature of the vector of the Paynow documentation
KnownVectorSignature ==
    calculate_request_signature_chars(VectorSignatureKey, VectorApiKey,
                                      VectorIdempotencyKey, <<>>, <<>>)

(***************************************************************************)
(* SpecSign: _calculate_request_signature applied to every idempotency     *)
(* key, body and parameter dict, by a client holding the merchant's keys,  *)
(* with HMAC-SHA256 as an ideal MAC; and applied to the vector of the      *)
(* Paynow documentation, computed down to the bits.                        *)
(***************************************************************************)
InitPure ==
    /\ payment = [status |-> "NEW", external_id |-> ""]
    /\ last = NoCall
    /\ tasks = [i \in Task |-> IdleTask]
    /\ start = payment
    /\ vcall = NoCall
    /\ pcall = NoCall
    /\ client = NewClient
    /\ ccall = NoCall
    /\ wire = <<>>
    /\ minted = 0
    /\ handles = <<>>
    /\ scope = NoScope

\* client._calculate_request_signature(api_key=..., idempotency_key=..., body=..., parameters=...)
CalculateRequestSignature(idempotency_key, body, parameters) ==
    /\ pcall' = [op |-> "_calculate_request_signature",
                 signature_key |-> KeyName(1), api_key |-> ApiKey,
                 idempotency_key |-> idempotency_key, body |-> body,
                 parameters |-> parameters,
                 result |-> calculate_request_signature(KeyName(1), ApiKey,
                                idempotency_key, body, parameters)]
    /\ UNCHANGED <<payment, last, tasks, start, vcall, client, ccall, wire, minted, handles, scope>>

\* client._calculate_request_signature applied to the vector of the Paynow
\* documentation, as the first call on a newly made client holding the
\* vector's signature key
CalculateKnownVector ==
    /\ pcall = NoCall
    /\ pcall' = [op |-> "_calculate_request_signature: known vector",
                 signature_key |-> text(VectorSignatureKey),
                 api_key |-> text(VectorApiKey),
                 idempotency_key |-> text(VectorIdempotencyKey),
                 body |-> "", parameters |-> <<>>,
                 result |-> KnownVectorSignature]
    /\ UNCHANGED <<payment, last, tasks, start, vcall, client, ccall, wire, minted, handles, scope>>

NextSign ==
    \/ \E n \in 1..MaxKeys, body \in RequestBodies, parameters \in ParamDicts :
          CalculateRequestSignature(uuid(n), body, parameters)
    \/ CalculateKnownVector

SpecSign == InitPure /\ [][NextSign]_vars

(***************************************************************************)
(* SpecAmount: the two conversions applied to every amount, alone and one  *)
(* after the other.                                                        *)
(***************************************************************************)
\* PaynowClient._to_lowest_unit(amount)
ToLowestUnit(amount) ==
    /\ pcall' = [op |-> "_to_lowest_unit", amount |-> amount,
                 result |-> to_lowest_unit(amount)]
    /\ UNCHANGED <<payment, last, tasks, start, vcall, client, ccall, wire, minted, handles, scope>>

\* PaynowClient._from_lowest_unit(amount)
FromLowestUnit(amount) ==
    /\ pcall' = [op |-> "_from_lowest_unit", amount |-> amount,
                 result |-> from_lowest_unit(amount)]
    /\ UNCHANGED <<payment, last, tasks, start, vcall, client, ccall, wire, minted, handles, scope>>

\* PaynowClient._to_lowest_unit(PaynowClient._from_lowest_unit(amount))
RoundTrip(amount) ==
    /\ pcall' = [op |-> "round_trip", amount |-> amount,
                 main |-> from_lowest_unit(amount),
                 result |-> to_lowest_unit(from_lowest_unit(amount))]
    /\ UNCHANGED <<payment, last, tasks, start, vcall, client, ccall, wire, minted, handles, scope>>

NextAmount ==
    \/ \E amount \in DecimalAmounts : ToLowestUnit(amount)
    \/ \E amount \in MinorAmounts : FromLowestUnit(amount)
    \/ \E amount \in MinorAmounts : RoundTrip(amount)

SpecAmount == InitPure /\ [][NextAmount]_vars

(***************************************************************************)
(* The six operations of PaynowClient.  Each runs to its one await, the    *)
(* network exchange of _request, and resumes with the response; the part   *)
(* before the await builds the request, the part after it decides the      *)
(* outcome.                                                                *)
(***************************************************************************)
\* None as the value an operation returns
None == "<None>"

\* an optional dict of query parameters: None, or the items of the dict
NoParams == [none |-> TRUE, items |-> <<>>]
Params(items) == [none |-> FALSE, items |-> items]

\* params or None
or_None(items) == IF items = <<>> THEN NoParams ELSE Params(items)

\* body or ""
or_empty(body) == IF body.none \/ body.raw = "" THEN Text("", "") ELSE body

\* str(v) of a parameter value: the amount is an int, the currency a str
str(k, v) == IF k = "amount" THEN digits_str(v) ELSE v

ApiUrl == "https://api.sandbox.paynow.pl"

\* mutant: the signature is computed over another key than the header carries
build_headers_other_key(api_key, signature_key, idempotency_key, body, parameters) ==
    [h \in {"Api-Key", "Signature", "Idempotency-Key", "Content-Type", "Accept"} |->
        CASE h = "Api-Key" -> api_key
          [] h = "Signature" ->
                calculate_request_signature(signature_key, api_key, uuid(0), body, parameters)
          [] h = "Idempotency-Key" -> idempotency_key
          [] OTHER -> "application/json"]

\* PaynowClient._build_headers
build_headers(api_key, signature_key, idempotency_key, body, parameters) ==
    [h \in {"Api-Key", "Signature", "Idempotency-Key", "Content-Type", "Accept"} |->
        CASE h = "Api-Key" -> api_key
          [] h = "Signature" ->
                calculate_request_signature(signature_key, api_key, idempotency_key,
                                            body, parameters)
          [] h = "Idempotency-Key" -> idempotency_key
          [] OTHER -> "application/json"]

\* str_params of _request: {k: str(v) for k, v in params.items()}, {} without params
str_params(params) ==
    IF ~params.none /\ params.items /= <<>>
    THEN [i \in 1..Len(params.items) |->
            <<params.items[i][1], str(params.items[i][1], params.items[i][2])>>]
    ELSE <<>>

\* PaynowClient._request up to the send: what is handed to the transport
request(api_key, signature_key, idempotency_key, method, path, body, params) ==
    [method |-> method,
     url |-> ApiUrl \o path,
     headers |-> build_headers(api_key, signature_key, idempotency_key,
                               or_empty(body), str_params(params)),
     content |-> body,
     params |-> params]

\* httpx.Response: the status code and the content
Response(status_code, content) == [status_code |-> status_code, content |-> content]

\* how an operation ends: the value it returns or the error it raises
Return(value) == [exc |-> "none", value |-> value, raw_response |-> NoResponse]
Raise(exc, response) == [exc |-> exc, value |-> None, raw_response |-> response]

\* response.json(): the parsed content; content that is not JSON raises
json(response) ==
    IF response.content = "" THEN Raise("JSONDecodeError", NoResponse)
    ELSE Return(response.content)

\* mutant: every failure is a communication error
handle_error_no_401(response) == Raise("CommunicationError", response)

\* PaynowClient._handle_error
handle_error(response) ==
    IF response.status_code = 401
    THEN Raise("CredentialsError", response)
    ELSE Raise("CommunicationError", response)

\* create_payment before its await: client.py lines 234-258
create_payment_request(amount) ==
    [method |-> "POST", path |-> "/v3/payments",
     body |-> PaymentBody(to_lowest_unit(amount)), params |-> NoParams]

\* create_payment after its await: client.py lines 263-267
create_payment_result(response) ==
    IF response.status_code \in {200, 201} THEN json(response) ELSE handle_error(response)

\* get_payment_status before its await
get_payment_status_request(payment_id) ==
    [method |-> "GET", path |-> "/v3/payments/" \o payment_id \o "/status",
     body |-> NoBody, params |-> NoParams]

\* mutant: 201 is taken for a success as well
get_payment_status_result_201(response) ==
    IF response.status_code \in {200, 201} THEN json(response) ELSE handle_error(response)

\* get_payment_status after its await
get_payment_status_result(response) ==
    IF response.status_code = 200 THEN json(response) ELSE handle_error(response)

\* create_refund before its await
create_refund_request(payment_id, amount) ==
    [method |-> "POST", path |-> "/v3/payments/" \o payment_id \o "/refunds",
     body |-> RefundBody(to_lowest_unit(amount)), params |-> NoParams]

\* mutant: create_refund leaves its failures to _handle_error
create_refund_result_handle_error(response) ==
    IF response.status_code \in {200, 201} THEN json(response) ELSE handle_error(response)

\* create_refund after its await
create_refund_result(response) ==
    IF response.status_code \in {200, 201} THEN json(response)
    ELSE IF response.status_code = 401 THEN Raise("CredentialsError", response)
    ELSE Raise("RefundFailure", response)

\* get_refund_status before its await
get_refund_status_request(refund_id) ==
    [method |-> "GET", path |-> "/v3/refunds/" \o refund_id \o "/status",
     body |-> NoBody, params |-> NoParams]

\* get_refund_status after its await
get_refund_status_result(response) ==
    IF response.status_code = 200 THEN json(response) ELSE handle_error(response)

\* cancel_refund before its await
cancel_refund_request(refund_id) ==
    [method |-> "POST", path |-> "/v3/refunds/" \o refund_id \o "/cancel",
     body |-> NoBody, params |-> NoParams]

\* cancel_refund after its await
cancel_refund_result(response) ==
    IF response.status_code \in {200, 202} THEN Return(None) ELSE handle_error(response)

\* get_payment_methods before its await; kwargs holds the filters that are not None
get_payment_methods_request(kwargs) ==
    LET amount == IF "amount" \in DOMAIN kwargs
                  THEN << <<"amount", kwargs["amount"]>> >> ELSE <<>>
        currency == IF "currency" \in DOMAIN kwargs
                    THEN << <<"currency", kwargs["currency"]>> >> ELSE <<>>
    IN  [method |-> "GET", path |-> "/v3/payments/paymentmethods",
         body |-> NoBody, params |-> or_None(amount \o currency)]

\* get_payment_methods after its await
get_payment_methods_result(response) ==
    IF response.status_code = 200 THEN json(response) ELSE handle_error(response)

\* the part of each operation that follows its await
result(op, response) ==
    CASE op = "create_payment" -> create_payment_result(response)
      [] op = "get_payment_status" -> get_payment_status_result(response)
      [] op = "create_refund" -> create_refund_result(response)
      [] op = "get_refund_status" -> get_refund_status_result(response)
      [] op = "cancel_refund" -> cancel_refund_result(response)
      [] op = "get_payment_methods" -> get_payment_methods_result(response)

\* mutant: the outcome is decided on last_response as it was found, before
\* the operation's own response is stored in it
resume_read_before_store(c, op, response) ==
    [client |-> [c EXCEPT !.last_response = response],
     outcome |-> result(op, c.last_response)]

\* self.last_response = await self._request(...); then the status code and
\* the content are read from self.last_response, with no await in between
resume(c, op, response) ==
    LET stored == [c EXCEPT !.last_response = response]
    IN  [client |-> stored, outcome |-> result(op, stored.last_response)]

\* the status codes the gateway answers with, and a body that is or is not JSON
StatusCodes == {200, 201, 202, 204, 400, 401, 500}
Responses == {Response(s, c) : s \in StatusCodes, c \in {"", "{}"}}

RefundId == "REF-1"
\* the filters of get_payment_methods: none, an amount, an amount and a currency
MethodFilters ==
    {<<>>, [k \in {"amount"} |-> <<1, 0, 0, 0, 0>>],
     [k \in {"amount", "currency"} |-> IF k = "amount" THEN <<1, 0, 0, 0, 0>> ELSE "PLN"]}

(***************************************************************************)
(* SpecClient: operations called one after the other on one client, each   *)
(* answered by the gateway or failed by the transport.                     *)
(***************************************************************************)
Ready == IF ccall.op = "none" THEN TRUE ELSE ccall.pc = "done"

\* httpx.AsyncClient(): a new open handle, created by __aenter__ or by _request
Handle(by) == [by |-> by, state |-> "open"]

\* handle.aclose(), and the exit of `async with httpx.AsyncClient()`
aclose(hs, h) == [hs EXCEPT ![h].state = "closed"]

\* _request lines 167-175: the handle of the open scope if there is one, else
\* a handle of its own, to be closed when the exchange is over
acquire(c, hs) ==
    IF c._client /= NoHandle
    THEN [handle |-> c._client, own |-> FALSE, handles |-> hs]
    ELSE [handle |-> Len(hs) + 1, own |-> TRUE, handles |-> Append(hs, Handle("_request"))]

\* _request lines 175-182: the exit of `async with`, by return or by error
release(call, hs) == IF call.own THEN aclose(hs, call.handle) ELSE hs

\* an operation runs up to the await of _request: a key is generated, the
\* headers are built and the request is handed to the transport; the bound on
\* the keys generated bounds the run
launch(c, hs, n, op, req) ==
    LET idempotency_key == uuid(n)
        sent == request(ApiKey, KeyName(1), idempotency_key,
                        req.method, req.path, req.body, req.params)
        got == acquire(c, hs)
    IN  [sent |-> sent, handles |-> got.handles,
         call |-> [op |-> op, pc |-> "awaiting", request |-> sent,
                   handle |-> got.handle, own |-> got.own,
                   response |-> NoResponse, outcome |-> Return(None)]]

\* an operation is called on the client and runs up to its await
Call(op, req) ==
    /\ minted < MaxKeys
    /\ LET l == launch(client, handles, minted + 1, op, req)
       IN  /\ wire' = Append(wire, l.sent)
           /\ handles' = l.handles
           /\ ccall' = l.call
    /\ minted' = minted + 1
    /\ UNCHANGED <<payment, last, tasks, start, vcall, pcall, client, scope>>

\* await client.create_payment(amount=amount, ...)
CreatePayment(amount) ==
    /\ Ready
    /\ Call("create_payment", create_payment_request(amount))

\* await client.get_payment_status(payment_id)
GetPaymentStatus(payment_id) ==
    /\ Ready
    /\ Call("get_payment_status", get_payment_status_request(payment_id))

\* await client.create_refund(payment_id=payment_id, amount=amount)
CreateRefund(payment_id, amount) ==
    /\ Ready
    /\ Call("create_refund", create_refund_request(payment_id, amount))

\* await client.get_refund_status(refund_id)
GetRefundStatus(refund_id) ==
    /\ Ready
    /\ Call("get_refund_status", get_refund_status_request(refund_id))

\* await client.cancel_refund(refund_id)
CancelRefund(refund_id) ==
    /\ Ready
    /\ Call("cancel_refund", cancel_refund_request(refund_id))

\* await client.get_payment_methods(**kwargs)
GetPaymentMethods(kwargs) ==
    /\ Ready
    /\ Call("get_payment_methods", get_payment_methods_request(kwargs))

\* the response arrives: the operation stores it in last_response and ends
Respond(response) ==
    /\ ccall.op /= "none"
    /\ ccall.pc = "awaiting"
    /\ client' = [client EXCEPT !.last_response = response]
    /\ ccall' = [ccall EXCEPT !.pc = "done", !.response = response,
                              !.outcome = result(ccall.op, response)]
    /\ handles' = release(ccall, handles)
    /\ UNCHANGED <<payment, last, tasks, start, vcall, pcall, wire, minted, scope>>

\* the exchange fails: the error of the transport leaves the operation as it is
TransportError ==
    /\ ccall.op /= "none"
    /\ ccall.pc = "awaiting"
    /\ ccall' = [ccall EXCEPT !.pc = "done",
                              !.outcome = Raise("httpx.TransportError", NoResponse)]
    /\ handles' = release(ccall, handles)
    /\ UNCHANGED <<payment, last, tasks, start, vcall, pcall, client, wire, minted, scope>>

NextClient ==
    \/ \E amount \in ClientAmounts : CreatePayment(amount)
    \/ GetPaymentStatus(IdName(1))
    \/ \E amount \in ClientAmounts : CreateRefund(IdName(1), amount)
    \/ GetRefundStatus(RefundId)
    \/ CancelRefund(RefundId)
    \/ \E kwargs \in MethodFilters : GetPaymentMethods(kwargs)
    \/ \E response \in Responses : Respond(response)
    \/ TransportError

SpecClient == InitPure /\ [][NextClient]_vars

(***************************************************************************)
(* SpecScope: one PaynowClient used in `async with client:` blocks, which  *)
(* may nest, with operations called inside and outside the blocks.  A      *)
(* block is left by falling off its end or by an exception of its body.    *)
(***************************************************************************)
\* `async with client` blocks entered over a run
MaxScopes == 2

\* PaynowClient.__aenter__: the client and the handles afterwards
aenter(c, hs) ==
    [client |-> [c EXCEPT !._client = Len(hs) + 1, !._owns_client = TRUE],
     handles |-> Append(hs, Handle("__aenter__"))]

\* mutant: __aexit__ forgets the handle without closing it
aexit_no_close(c, hs) ==
    IF c._owns_client /\ c._client /= NoHandle
    THEN [client |-> [c EXCEPT !._client = NoHandle, !._owns_client = FALSE],
          handles |-> hs]
    ELSE [client |-> c, handles |-> hs]

\* PaynowClient.__aexit__(*exc): the same whatever exc is
aexit(c, hs) ==
    IF c._owns_client /\ c._client /= NoHandle
    THEN [client |-> [c EXCEPT !._client = NoHandle, !._owns_client = FALSE],
          handles |-> aclose(hs, c._client)]
    ELSE [client |-> c, handles |-> hs]

\* how the body of a block ends: it falls off its end, or it raises
BlockExits == {"none", "Exception"}

\* async with client: -- __aenter__ runs; the block overlaps every block of
\* this client that is still open
AEnter ==
    /\ Ready
    /\ Len(scope.blocks) + Len(scope.exited) < MaxScopes
    /\ LET r == aenter(client, handles)
           nested == scope.blocks /= <<>>
       IN  /\ client' = r.client
           /\ handles' = r.handles
           /\ scope' = [scope EXCEPT !.blocks =
                          Append([k \in 1..Len(scope.blocks) |->
                                     [scope.blocks[k] EXCEPT !.overlapped = TRUE]],
                                 [handle |-> r.client._client, overlapped |-> nested])]
    /\ UNCHANGED <<payment, last, tasks, start, vcall, pcall, ccall, wire, minted>>

\* the innermost open block ends with exc: __aexit__(*exc) runs
AExit(exc) ==
    /\ Ready
    /\ scope.blocks /= <<>>
    /\ LET r == aexit(client, handles)
           n == Len(scope.blocks)
           block == scope.blocks[n]
       IN  /\ client' = r.client
           /\ handles' = r.handles
           /\ scope' = [blocks |-> SubSeq(scope.blocks, 1, n - 1),
                        exited |-> Append(scope.exited,
                                          [handle |-> block.handle,
                                           overlapped |-> block.overlapped,
                                           exc |-> exc])]
    /\ UNCHANGED <<payment, last, tasks, start, vcall, pcall, ccall, wire, minted>>

\* the answers of the gateway that matter to a scope: a success and a failure
ScopeResponses == {Response(200, "{}"), Response(401, "{}")}

NextScope ==
    \/ AEnter
    \/ \E exc \in BlockExits : AExit(exc)
    \/ GetPaymentStatus(IdName(1))
    \/ \E response \in ScopeResponses : Respond(response)
    \/ TransportError

SpecScope == InitPure /\ [][NextScope]_vars

(***************************************************************************)
(* processor.py: the operations of PaynowProcessor that talk to the        *)
(* gateway.  Each makes a client of its own (_get_client), awaits one      *)
(* operation of it and goes on with what the operation returned; what the  *)
(* operation raises leaves the processor's method as it is.                *)
(***************************************************************************)
\* the JSON object the gateway answers with, as text: "key":"value" members
\* in the order of the keys
JsonKeys == <<"paymentId", "redirectUrl", "refundId", "status">>

RECURSIVE members(_, _)
members(d, k) ==
    IF k > Len(JsonKeys) THEN <<>>
    ELSE IF JsonKeys[k] \in DOMAIN d
         THEN <<json_str(JsonKeys[k]) \o ":" \o json_str(d[JsonKeys[k]])>> \o members(d, k + 1)
         ELSE members(d, k + 1)

RECURSIVE comma_join(_)
comma_join(ms) ==
    IF ms = <<>> THEN ""
    ELSE IF Len(ms) = 1 THEN ms[1]
    ELSE ms[1] \o "," \o comma_join(Tail(ms))

dumps(d) == "{" \o comma_join(members(d, 1)) \o "}"

RedirectUrl == "https://paywall.paynow.pl/pay/123"

\* a dict with the given keys out of paymentId, redirectUrl, refundId, status
MkDict(keys, payment_id, redirect_url, refund_id, status) ==
    [k \in keys |-> CASE k = "paymentId" -> payment_id
                      [] k = "redirectUrl" -> redirect_url
                      [] k = "refundId" -> refund_id
                      [] k = "status" -> status]

\* the objects the gateway answers with: the empty object; a payment created,
\* also without or with an empty paymentId; a payment's status, one of the
\* seven or unknown, or no status at all; a refund created
GatewayDicts ==
    {MkDict({}, "", "", "", "")}
    \cup {MkDict({"paymentId", "redirectUrl", "status"}, IdName(2), RedirectUrl, "", "NEW"),
          MkDict({"paymentId", "redirectUrl", "status"}, "", RedirectUrl, "", "NEW"),
          MkDict({"redirectUrl", "status"}, "", RedirectUrl, "", "NEW")}
    \cup {MkDict({"paymentId", "status"}, IdName(1), "", "", st) :
             st \in PaynowPaymentStatus \cup {"UNKNOWN"}}
    \cup {MkDict({"paymentId"}, IdName(1), "", "", "")}
    \cup {MkDict({"refundId", "status"}, "", "", "REF-2", "NEW")}

\* the dict a returned JSON document parses to
loads(document) == CHOOSE d \in GatewayDicts : dumps(d) = document

\* an optional Decimal argument: None, or the amount
NoAmount == [none |-> TRUE, value |-> Dec(<<0>>, 0)]
Amount(d) == [none |-> FALSE, value |-> d]

\* truth value of a Decimal: zero is falsy
TruthyDecimal(d) == ~IsZero(d.int)

\* getattr(payment, name, default)
getattr(p, name, default) == IF p[name] = Absent THEN default ELSE p[name]

\* TransactionResult(redirect_url=redirect_url, form_data=None, method="GET", headers={})
TransactionResult(redirect_url) ==
    [redirect_url |-> redirect_url, form_data |-> None, method |-> "GET", headers |-> <<>>]

\* what a method of the processor leaves behind: the payment, and the value
\* returned or the error raised
Left(p, outcome) == [payment |-> p, outcome |-> outcome]

\* prepare_transaction before its await: lines 84-86, the context of
\* _build_paywall_context handed to create_payment
prepare_transaction_request(p) == create_payment_request(p.amount_required)

\* mutant: prepare_transaction also moves the payment to PREPARED
prepare_transaction_result_confirm(p, created) ==
    IF created.exc /= "none" THEN Left(p, created)
    ELSE LET response == loads(created.value)
             redirect_url == Get(response, "redirectUrl", "")
             payment_id == Get(response, "paymentId", "")
         IN  Left([store_external_id(p, payment_id) EXCEPT !.status = "PREPARED"],
                  Return(TransactionResult(redirect_url)))

\* prepare_transaction after its await: lines 88-99
prepare_transaction_result(p, created) ==
    IF created.exc /= "none" THEN Left(p, created)
    ELSE LET response == loads(created.value)
             redirect_url == Get(response, "redirectUrl", "")
             payment_id == Get(response, "paymentId", "")
         IN  Left(store_external_id(p, payment_id),
                  Return(TransactionResult(redirect_url)))

\* fetch_payment_status before its await: lines 187-190
fetch_payment_status_request(p) == get_payment_status_request(p.external_id)

\* mutant: PENDING proposes no transition
status_map_pending_none ==
    [st \in PaynowPaymentStatus |->
        CASE st = "NEW" -> None
          [] st = "PENDING" -> None
          [] st = "CONFIRMED" -> "confirm_payment"
          [] OTHER -> "fail"]

\* lines 193-201
status_map ==
    [st \in PaynowPaymentStatus |->
        CASE st = "NEW" -> None
          [] st = "PENDING" -> "confirm_prepared"
          [] st = "CONFIRMED" -> "confirm_payment"
          [] st = "REJECTED" -> "fail"
          [] st = "ERROR" -> "fail"
          [] st = "EXPIRED" -> "fail"
          [] st = "ABANDONED" -> "fail"]

\* fetch_payment_status after its await: lines 191-205
fetch_payment_status_result(p, fetched) ==
    IF fetched.exc /= "none" THEN Left(p, fetched)
    ELSE LET response == loads(fetched.value)
             paynow_status == Get(response, "status", "")
         IN  Left(p, Return([status |-> Get(status_map, paynow_status, None)]))

\* mutant: charge does nothing and says nothing
charge_noop(p, amount) == Left(p, Return(None))

\* charge: lines 207-213
charge(p, amount) == Left(p, Raise("NotImplementedError", NoResponse))

\* release_lock: lines 215-219
release_lock(p) == Left(p, Raise("NotImplementedError", NoResponse))

\* line 226: amount or self.payment.amount_paid
refund_amount(p, amount) ==
    IF ~amount.none /\ TruthyDecimal(amount.value) THEN amount.value ELSE p.amount_paid

\* start_refund before its await: lines 225-230
start_refund_request(p, amount) ==
    create_refund_request(p.external_id, refund_amount(p, amount))

\* start_refund after its await: line 231; what create_refund returned is dropped
start_refund_result(p, amount, created) ==
    IF created.exc /= "none" THEN Left(p, created)
    ELSE Left(p, Return(refund_amount(p, amount)))

\* cancel_refund of the processor before its await: lines 235-237
processor_cancel_refund_request(p) ==
    cancel_refund_request(getattr(p, "external_refund_id", ""))

\* cancel_refund of the processor after its await: line 238
processor_cancel_refund_result(p, cancelled) ==
    IF cancelled.exc /= "none" THEN Left(p, cancelled) ELSE Left(p, Return("True"))

\* the part of each method that follows its await
proceed(call, p, outcome) ==
    CASE call.op = "prepare_transaction" -> prepare_transaction_result(p, outcome)
      [] call.op = "fetch_payment_status" -> fetch_payment_status_result(p, outcome)
      [] call.op = "start_refund" -> start_refund_result(p, call.amount, outcome)
      [] call.op = "cancel_refund" -> processor_cancel_refund_result(p, outcome)

(***************************************************************************)
(* SpecProc: the methods of one processor called one after the other for   *)
(* one payment, each answered by the gateway or failed by the transport.   *)
(***************************************************************************)
\* methods called on the processor over a run
MaxCalls == 1

\* the payments a processor is made for
ProcPayments ==
    [status : FsmStates, external_id : {IdName(1)},
     external_refund_id : {Absent, RefundId},
     amount_required : {Dec(<<1, 0, 0, 0, 0>>, -2)},
     amount_paid : {Dec(<<1, 0, 0, 0, 0>>, -2), Dec(<<4, 9, 9, 9>>, -2)}]

\* the amounts charge and start_refund are called with: None, 50.00, 0
AmountArguments == {NoAmount, Amount(Dec(<<5, 0, 0, 0>>, -2)), Amount(Dec(<<0>>, 0))}

\* what the gateway answers: a status code with a JSON object, or with no JSON
ProcStatusCodes == {200, 201, 401}
ProcResponses ==
    {Response(code, dumps(d)) : code \in ProcStatusCodes, d \in GatewayDicts}
    \cup {Response(200, "")}

InitProc ==
    /\ payment \in ProcPayments
    /\ last = NoCall
    /\ tasks = [i \in Task |-> IdleTask]
    /\ start = payment
    /\ vcall = NoCall
    /\ pcall = NoCall
    /\ client = NewClient
    /\ ccall = NoCall
    /\ wire = <<>>
    /\ minted = 0
    /\ handles = <<>>
    /\ scope = NoScope

\* how many methods have been called so far
Calls == IF last.op = "none" THEN 0 ELSE last.n

ProcReady ==
    /\ IF last.op = "none" THEN TRUE ELSE last.pc = "done"
    /\ Calls < MaxCalls

\* a method of the processor runs up to the await of its client's operation:
\* a new client is made and the operation called on it
Await(method, amount, op, req) ==
    /\ LET l == launch(NewClient, handles, minted + 1, op, req)
       IN  /\ wire' = Append(wire, l.sent)
           /\ handles' = l.handles
           /\ ccall' = l.call
    /\ client' = NewClient
    /\ minted' = minted + 1
    /\ last' = [op |-> method, pc |-> "awaiting", n |-> Calls + 1, amount |-> amount,
                pre |-> payment, sent |-> Len(wire), outcome |-> Return(None)]
    /\ UNCHANGED <<payment, tasks, start, vcall, pcall, scope>>

\* a method of the processor that awaits nothing runs from its call to its end
Run(method, amount, left) ==
    /\ payment' = left.payment
    /\ last' = [op |-> method, pc |-> "done", n |-> Calls + 1, amount |-> amount,
                pre |-> payment, sent |-> Len(wire), outcome |-> left.outcome]
    /\ UNCHANGED <<tasks, start, vcall, pcall, client, ccall, wire, minted, handles, scope>>

\* await processor.prepare_transaction()
PrepareTransaction ==
    /\ ProcReady
    /\ Await("prepare_transaction", NoAmount, "create_payment",
             prepare_transaction_request(payment))

\* await processor.fetch_payment_status()
FetchPaymentStatus ==
    /\ ProcReady
    /\ Await("fetch_payment_status", NoAmount, "get_payment_status",
             fetch_payment_status_request(payment))

\* await processor.charge(amount)
Charge(amount) ==
    /\ ProcReady
    /\ Run("charge", amount, charge(payment, amount))

\* await processor.release_lock()
ReleaseLock ==
    /\ ProcReady
    /\ Run("release_lock", NoAmount, release_lock(payment))

\* await processor.start_refund(amount)
StartRefund(amount) ==
    /\ ProcReady
    /\ Await("start_refund", amount, "create_refund", start_refund_request(payment, amount))

\* await processor.cancel_refund()
ProcessorCancelRefund ==
    /\ ProcReady
    /\ Await("cancel_refund", NoAmount, "cancel_refund",
             processor_cancel_refund_request(payment))

\* the response arrives: the client's operation ends, and with what it
\* returned or raised the processor's method runs to its end
ProcRespond(response) ==
    /\ last.op /= "none"
    /\ last.pc = "awaiting"
    /\ LET r == resume(client, ccall.op, response)
           left == proceed(last, payment, r.outcome)
       IN  /\ client' = r.client
           /\ ccall' = [ccall EXCEPT !.pc = "done", !.response = response,
                                     !.outcome = r.outcome]
           /\ payment' = left.payment
           /\ last' = [last EXCEPT !.pc = "done", !.outcome = left.outcome]
    /\ handles' = release(ccall, handles)
    /\ UNCHANGED <<tasks, start, vcall, pcall, wire, minted, scope>>

\* the exchange fails: the transport's error leaves the client's operation and
\* the processor's method as it is
ProcTransportError ==
    /\ last.op /= "none"
    /\ last.pc = "awaiting"
    /\ LET outcome == Raise("httpx.TransportError", NoResponse)
           left == proceed(last, payment, outcome)
       IN  /\ ccall' = [ccall EXCEPT !.pc = "done", !.outcome = outcome]
           /\ payment' = left.payment
           /\ last' = [last EXCEPT !.pc = "done", !.outcome = left.outcome]
    /\ handles' = release(ccall, handles)
    /\ UNCHANGED <<tasks, start, vcall, pcall, client, wire, minted, scope>>

NextProc ==
    \/ PrepareTransaction
    \/ FetchPaymentStatus
    \/ \E amount \in AmountArguments : Charge(amount)
    \/ ReleaseLock
    \/ \E amount \in AmountArguments : StartRefund(amount)
    \/ ProcessorCancelRefund
    \/ \E response \in ProcResponses : ProcRespond(response)
    \/ ProcTransportError

SpecProc == InitProc /\ [][NextProc]_vars

(***************************************************************************)
(* SpecClientConc: operations in flight together on one PaynowClient, on   *)
(* one event loop.  An operation gives up control only at the await of     *)
(* _request; from the arrival of its response it runs to its end, storing  *)
(* the response in the shared last_response and reading it back.           *)
(***************************************************************************)
\* a task before it calls an operation
IdleOperation == [pc |-> "idle", overlapped |-> FALSE]

InitClientConc ==
    /\ payment = [status |-> "NEW", external_id |-> ""]
    /\ last = NoCall
    /\ tasks = [i \in Task |-> IdleOperation]
    /\ start = payment
    /\ vcall = NoCall
    /\ pcall = NoCall
    /\ client = NewClient
    /\ ccall = NoCall
    /\ wire = <<>>
    /\ minted = 0
    /\ handles = <<>>
    /\ scope = NoScope

\* the requests of the operations called concurrently
ConcOperations ==
    {[op |-> "get_payment_status", req |-> get_payment_status_request(IdName(1))],
     [op |-> "create_refund",
      req |-> create_refund_request(IdName(1), Dec(<<4, 9, 9, 9>>, -2))]}

\* what the gateway answers concurrent operations with: each status that one
\* of them takes for a success or for a failure of its own kind, and a 200
\* whose content is not JSON
ConcResponses ==
    {Response(code, "{}") : code \in {200, 201, 401, 500}} \cup {Response(200, "")}

\* task i calls an operation, which runs up to the await of _request
StartOperation(i, call) ==
    /\ tasks[i].pc = "idle"
    /\ minted < MaxKeys
    /\ LET l == launch(client, handles, minted + 1, call.op, call.req)
           busy == \E j \in Task : tasks[j].pc = "awaiting"
       IN  /\ wire' = Append(wire, l.sent)
           /\ handles' = l.handles
           /\ tasks' = [j \in Task |->
                          IF j = i
                          THEN [pc |-> "awaiting", op |-> call.op, request |-> l.sent,
                                handle |-> l.call.handle, own |-> l.call.own,
                                response |-> NoResponse, outcome |-> Return(None),
                                overlapped |-> busy]
                          ELSE IF tasks[j].pc = "awaiting"
                               THEN [tasks[j] EXCEPT !.overlapped = TRUE]
                               ELSE tasks[j]]
    /\ minted' = minted + 1
    /\ UNCHANGED <<payment, last, start, vcall, pcall, client, ccall, scope>>

\* the response to task i's request arrives and its operation runs to its end
ResumeOperation(i, response) ==
    /\ tasks[i].pc = "awaiting"
    /\ LET r == resume(client, tasks[i].op, response)
       IN  /\ client' = r.client
           /\ tasks' = [tasks EXCEPT ![i].pc = "done", ![i].response = response,
                                     ![i].outcome = r.outcome]
    /\ handles' = release(tasks[i], handles)
    /\ UNCHANGED <<payment, last, start, vcall, pcall, ccall, wire, minted, scope>>

\* the exchange of task i fails: the transport's error ends its operation
FailOperation(i) ==
    /\ tasks[i].pc = "awaiting"
    /\ tasks' = [tasks EXCEPT ![i].pc = "done",
                              ![i].outcome = Raise("httpx.TransportError", NoResponse)]
    /\ handles' = release(tasks[i], handles)
    /\ UNCHANGED <<payment, last, start, vcall, pcall, client, ccall, wire, minted, scope>>

NextClientConc ==
    \/ \E i \in Task, call \in ConcOperations : StartOperation(i, call)
    \/ \E i \in Task, response \in ConcResponses : ResumeOperation(i, response)
    \/ \E i \in Task : FailOperation(i)

SpecClientConc == InitClientConc /\ [][NextClientConc]_vars

(***************************************************************************)
(* Properties of concurrent operations (specification SpecClientConc).     *)
(***************************************************************************)
AnsweredTasks ==
    {i \in Task : IF tasks[i].pc = "done"
                  THEN tasks[i].outcome.exc /= "httpx.TransportError" ELSE FALSE}

\* C29: with two operations in flight on one PaynowClient, each suspended at
\* its network exchange, the outcome of each (the result returned or the error
\* raised) is decided by the response to its own request and never by the
\* other's, although both write the shared last_response.
C29_OutcomeFromOwnResponse ==
    \A i \in AnsweredTasks :
        tasks[i].outcome = result(tasks[i].op, tasks[i].response)

\* two operations that were in flight together, answered 200 and 500: the one
\* returned, the other raised RefundFailure, and last_response holds the
\* response of the one answered last
C29_Witness ==
    \E i, j \in AnsweredTasks :
        /\ tasks[i].overlapped /\ tasks[j].overlapped
        /\ tasks[i].op = "get_payment_status" /\ tasks[i].response.status_code = 200
        /\ tasks[i].outcome.exc = "none"
        /\ tasks[j].op = "create_refund" /\ tasks[j].response.status_code = 500
        /\ tasks[j].outcome.exc = "RefundFailure"
        /\ client.last_response = tasks[j].response
        /\ client.last_response /= tasks[i].response

(***************************************************************************)
(* Properties of the scoped use of a client (specification SpecScope).     *)
(***************************************************************************)
Closed(h) == handles[h].state = "closed"

\* C21: a PaynowClient used as a scoped block holds an owned transport handle
\* for the whole block (_client set, _owns_client true) and, on every exit
\* from the block, exit by error included, the handle is closed and the client
\* is unowned again (_client None, _owns_client false).  A block is taken on
\* its own here: no other block of the same client overlaps it.
C21_ScopedBlockOwnsHandle ==
    /\ \A k \in 1..Len(scope.blocks) :
          ~scope.blocks[k].overlapped
              => /\ client._client = scope.blocks[k].handle
                 /\ client._owns_client
                 /\ ~Closed(scope.blocks[k].handle)
    /\ \A k \in 1..Len(scope.exited) :
          ~scope.exited[k].overlapped => Closed(scope.exited[k].handle)
    /\ (/\ scope.blocks = <<>> /\ scope.exited /= <<>>
        /\ ~scope.exited[Len(scope.exited)].overlapped)
          => client._client = NoHandle /\ ~client._owns_client

\* a block left by an exception after a request went over its handle
C21_Witness ==
    /\ scope.blocks = <<>> /\ Len(scope.exited) = 1
    /\ scope.exited[1].exc = "Exception" /\ ~scope.exited[1].overlapped
    /\ ccall.op = "get_payment_status" /\ ccall.pc = "done"
    /\ ccall.handle = scope.exited[1].handle /\ ~ccall.own
    /\ ccall.outcome.exc = "CredentialsError"
    /\ Closed(scope.exited[1].handle)
    /\ client._client = NoHandle /\ ~client._owns_client

\* C30: no transport handle is leaked: once every __aenter__ on a client has
\* been matched by an __aexit__, a second entry before the first block's exit
\* included, every handle made by __aenter__ is closed; and a request with no
\* open scope makes a handle of its own and closes it.
C30_NoHandleLeaked ==
    /\ scope.blocks = <<>>
          => \A h \in 1..Len(handles) : handles[h].by = "__aenter__" => Closed(h)
    /\ Ready
          => \A h \in 1..Len(handles) : handles[h].by = "_request" => Closed(h)

\* the handle a request makes for itself is closed when the exchange is over,
\* by a response or by an error
RequestReleasesItsOwnHandle ==
    /\ Ready => \A h \in 1..Len(handles) : handles[h].by = "_request" => Closed(h)
    /\ (ccall.op /= "none" /\ client._client = NoHandle /\ scope.blocks = <<>>
            /\ scope.exited = <<>>)
          => ccall.own /\ handles[ccall.handle].by = "_request"

(***************************************************************************)
(* Properties of handle_callback (specification Spec).                     *)
(***************************************************************************)
Handled == last.op = "handle_callback"
StatusOf(data) == Get(data, "status", "")
PaymentIdOf(data) == Get(data, "paymentId", "")
Invoked(calls, name) == \E k \in 1..Len(calls) : calls[k] = name

\* C1: a CONFIRMED notification handled for a payment already PAID does not
\* raise and leaves the payment PAID, however often it is delivered.
C1_DuplicateConfirmedOnPaid ==
    (Handled /\ StatusOf(last.data) = "CONFIRMED" /\ last.pre.status = "PAID")
        => /\ last.raised = "none"
           /\ last.post.status = "PAID"
           /\ payment.status = "PAID"

C1_Witness ==
    /\ Handled /\ StatusOf(last.data) = "CONFIRMED" /\ last.pre.status = "PAID"
    /\ last.post.status = "PAID"

\* C2: a CONFIRMED notification handled for a payment in NEW, from which
\* confirm_payment is not legal, invokes no transition, leaves the state NEW
\* and does not raise.
C2_ConfirmedOnNew ==
    (Handled /\ StatusOf(last.data) = "CONFIRMED" /\ last.pre.status = "NEW")
        => /\ ~may_trigger("NEW", "confirm_payment")
           /\ last.calls = <<>>
           /\ last.post.status = "NEW"
           /\ last.raised = "none"

C2_Witness ==
    /\ Handled /\ StatusOf(last.data) = "CONFIRMED" /\ last.pre.status = "NEW"
    /\ last.calls = <<>>

\* C3: for every FSM state and every notification status, handle_callback
\* never lets an illegal-transition error (MachineError) out: confirm_payment
\* is invoked only where the FSM reports it legal, and an illegal mark_as_paid
\* or fail is swallowed.
C3_NoIllegalTransitionError ==
    Handled =>
        /\ last.raised /= "MachineError"
        /\ Invoked(last.calls, "confirm_payment")
              => may_trigger(last.pre.status, "confirm_payment")

\* a fail() that was illegal (the payment was already FAILED) and was swallowed
C3_Witness ==
    /\ Handled /\ StatusOf(last.data) = "REJECTED" /\ last.pre.status = "FAILED"
    /\ Invoked(last.calls, "fail") /\ last.raised = "none"

\* C5: a CONFIRMED notification handled for a PREPARED payment invokes
\* confirm_payment, then mark_as_paid, and the payment ends PAID.
C5_ConfirmedOnPrepared ==
    (Handled /\ StatusOf(last.data) = "CONFIRMED" /\ last.pre.status = "PREPARED")
        => /\ last.calls = <<"confirm_payment", "mark_as_paid">>
           /\ last.post.status = "PAID"
           /\ last.raised = "none"

C5_Witness ==
    /\ Handled /\ StatusOf(last.data) = "CONFIRMED" /\ last.pre.status = "PREPARED"
    /\ payment.status = "PAID"

\* C6: REJECTED, ERROR, EXPIRED or ABANDONED handled for a PREPARED payment
\* moves it to FAILED; handled for a payment already FAILED it leaves it FAILED
\* and does not raise.
C6_FailureStatusFails ==
    (Handled /\ StatusOf(last.data) \in {"REJECTED", "ERROR", "EXPIRED", "ABANDONED"})
        => /\ last.pre.status = "PREPARED"
              => (last.post.status = "FAILED" /\ last.raised = "none")
           /\ last.pre.status = "FAILED"
              => (last.post.status = "FAILED" /\ last.raised = "none")

C6_Witness ==
    /\ Handled /\ StatusOf(last.data) = "ABANDONED"
    /\ last.pre.status = "PREPARED" /\ payment.status = "FAILED"

\* C7: a notification whose status is PENDING, NEW or anything outside
\* CONFIRMED, REJECTED, ERROR, EXPIRED, ABANDONED attempts no transition: the
\* state after equals the state before, from every state, and nothing is raised.
C7_OtherStatusNoTransition ==
    (Handled /\ StatusOf(last.data) \notin
                  {"CONFIRMED", "REJECTED", "ERROR", "EXPIRED", "ABANDONED"})
        => /\ last.calls = <<>>
           /\ last.post.status = last.pre.status
           /\ payment.status = last.pre.status
           /\ last.raised = "none"

C7_Witness ==
    /\ Handled /\ StatusOf(last.data) = "PENDING" /\ last.pre.status = "PREPARED"
    /\ payment.status = "PREPARED"

\* C8: the notification's paymentId becomes the payment's external_id whenever
\* it is present and non-empty, whatever the status and whether or not a
\* transition is legal; an absent or empty paymentId leaves external_id as it
\* was; replaying the notification leaves external_id equal to that paymentId.
C8_ExternalIdRecorded ==
    Handled =>
        /\ PaymentIdOf(last.data) /= ""
              => /\ last.post.external_id = PaymentIdOf(last.data)
                 /\ handle_callback(last.post, last.data).payment.external_id
                        = PaymentIdOf(last.data)
        /\ PaymentIdOf(last.data) = ""
              => last.post.external_id = last.pre.external_id
        /\ payment.external_id = last.post.external_id

\* an identifier overwritten although no transition was legal
C8_Witness ==
    /\ Handled /\ PaymentIdOf(last.data) = IdName(2)
    /\ last.pre.external_id = IdName(1) /\ last.calls = <<>>
    /\ payment.external_id = IdName(2)

\* C27: handle_callback is idempotent: from every FSM state and for every
\* notification, handling the same notification a second time right after the
\* first leaves the payment's state and external_id as the first handling left
\* them, and the second handling does not raise.
C27_Idempotent ==
    (Handled /\ last.again)
        => /\ last.post = last.pre
           /\ payment = last.pre
           /\ last.raised = "none"

\* a failure notification handled again for the payment it has just failed:
\* fail() is invoked once more and its MachineError is suppressed
C27_Witness ==
    /\ Handled /\ last.again
    /\ StatusOf(last.data) = "REJECTED"
    /\ last.pre.status = "FAILED" /\ last.calls = <<"fail">>
    /\ payment.status = "FAILED"

\* C28: PAID is absorbing under handle_callback: no notification, whatever its
\* status (a late REJECTED, ERROR, EXPIRED or ABANDONED included) and however
\* often delivered, moves a payment out of PAID.
C28_PaidAbsorbing ==
    [][payment.status = "PAID" => payment'.status = "PAID"]_vars

\* a late failure notification handled for a PAID payment, twice over
C28_Witness ==
    /\ Handled /\ last.again
    /\ StatusOf(last.data) \in FailureStatuses
    /\ last.pre.status = "PAID" /\ last.calls = <<"fail">>
    /\ payment.status = "PAID"

(***************************************************************************)
(* Properties of concurrent deliveries (specification SpecConc).           *)
(***************************************************************************)
Done == {i \in Task : tasks[i].pc = "done"}

\* the payments the deliveries of the tasks in S produce when handled one after
\* another, in any order, beginning with payment p
RECURSIVE SeqOutcomes(_, _)
SeqOutcomes(p, S) ==
    IF S = {} THEN {p}
    ELSE UNION {SeqOutcomes(handle_callback(p, tasks[i].data).payment, S \ {i}) : i \in S}

\* C4: when notifications for one payment are handled by concurrent
\* invocations, under every interleaving no invocation raises and the payment
\* ends in a state that some sequential order of the deliveries also produces.
C4_ConcurrentDeliveries ==
    /\ \A i \in Done : tasks[i].raised = "none"
    /\ (\A i \in Task : tasks[i].pc /= "pending") => payment \in SeqOutcomes(start, Done)

\* a CONFIRMED and a REJECTED delivery, in flight together, both handled
C4_Witness ==
    \E i, j \in Done :
        /\ tasks[i].overlapped /\ tasks[j].overlapped
        /\ StatusOf(tasks[i].data) = "CONFIRMED" /\ StatusOf(tasks[j].data) = "REJECTED"
        /\ start.status = "PREPARED" /\ payment.status = "FAILED"

(***************************************************************************)
(* Properties of verify_callback (specification SpecVerify).               *)
(***************************************************************************)
Verified == vcall.op = "verify_callback"
ReceivedSignature == Get(vcall.headers, "Signature", "")
RawBody == Get(vcall.kwargs, "raw_body", Str(""))
ForeignSignatures ==
    {SignatureOf(k, b) : k \in SignatureKeys, b \in BodyTexts}
        \ {SignatureOf(vcall.signature_key, RawBody.v)}

\* C9: for a non-empty received Signature value, verify_callback returns
\* normally if and only if the value equals base64(HMAC-SHA256(signature_key,
\* raw_body)) of the raw body as received; a signature made for another body or
\* with another key makes it raise InvalidCallbackError (BAD SIGNATURE).
C9_SignatureDecides ==
    (Verified /\ ReceivedSignature /= "")
        => /\ (vcall.outcome = Returned)
                <=> (ReceivedSignature = SignatureOf(vcall.signature_key, RawBody.v))
           /\ ReceivedSignature \in ForeignSignatures => vcall.outcome = BadSignature

\* the same for a raw body passed as a str, which is what the comparison of
\* lines 121-135 decides
VerifyStrBodySignatureDecides ==
    (Verified /\ ReceivedSignature /= "" /\ RawBody.t = "str")
        => /\ (vcall.outcome = Returned)
                <=> (ReceivedSignature = SignatureOf(vcall.signature_key, RawBody.v))
           /\ ReceivedSignature \in ForeignSignatures => vcall.outcome = BadSignature

\* C10: whenever the Signature header is absent or empty, for every body,
\* verify_callback raises InvalidCallbackError naming the missing signature,
\* before any signature is computed or compared.
C10_MissingSignature ==
    (Verified /\ ReceivedSignature = "")
        => /\ vcall.outcome.exc = "InvalidCallbackError"
           /\ vcall.outcome.msg = "Missing Signature header in notification"
           /\ ~vcall.computed
           /\ ~vcall.compared

\* no Signature header at all, and a body passed as bytes
C10_Witness ==
    /\ Verified /\ DOMAIN vcall.headers = {}
    /\ RawBody = Bytes("body-1")
    /\ vcall.outcome = MissingSignature

\* C11: the Signature header is looked up case-insensitively: a correct
\* signature supplied under the name "signature" is accepted exactly as it is
\* under "Signature".
C11_HeaderNameAnyCase ==
    (/\ Verified
     /\ DOMAIN vcall.headers = {"signature"}
     /\ vcall.headers["signature"] = SignatureOf(vcall.signature_key, RawBody.v))
        => vcall.outcome =
              verify_callback(vcall.signature_key,
                              MkHeaders(vcall.headers["signature"], Absent),
                              vcall.kwargs).outcome

\* what the code does with such a notification: it reports the signature missing
VerifyLowercaseHeaderIsMissing ==
    (Verified /\ DOMAIN vcall.headers = {"signature"}) => vcall.outcome = MissingSignature

\* C12: called without a raw body, verify_callback raises InvalidCallbackError
\* "Missing raw_body", even if a Signature header is present; it never verifies
\* against an empty body instead.
C12_MissingRawBody ==
    (Verified /\ "raw_body" \notin DOMAIN vcall.kwargs /\ ReceivedSignature /= "")
        => /\ vcall.outcome.exc = "InvalidCallbackError"
           /\ vcall.outcome.msg = "Missing raw_body"
           /\ ~vcall.computed

\* what the code does without a raw body: it verifies against the empty string
VerifyMissingRawBodyIsEmptyBody ==
    (Verified /\ "raw_body" \notin DOMAIN vcall.kwargs)
        => vcall.outcome =
              verify_callback(vcall.signature_key, vcall.headers,
                              [k \in {"raw_body"} |-> Str("")]).outcome

(***************************************************************************)
(* Properties of _calculate_request_signature (specification SpecSign).    *)
(***************************************************************************)
Signed == pcall.op = "_calculate_request_signature"

\* C13: the request signature does not depend on the insertion order of the
\* query parameters: for the same apiKey, idempotencyKey and body, every dict
\* holding the same key/value pairs, in whatever order, signs identically.
C13_SignatureOrderIndependent ==
    Signed =>
        \A q \in ParamDicts :
            Items(q) = Items(pcall.parameters)
                => calculate_request_signature(pcall.signature_key, pcall.api_key,
                       pcall.idempotency_key, pcall.body, q) = pcall.result

\* a signature was computed over parameters inserted out of key order
C13_Witness ==
    /\ Signed
    /\ Len(pcall.parameters) >= 2
    /\ str_lt(pcall.parameters[2][1], pcall.parameters[1][1])
    /\ pcall.result =
          calculate_request_signature(pcall.signature_key, pcall.api_key,
              pcall.idempotency_key, pcall.body,
              <<pcall.parameters[2], pcall.parameters[1]>>)

\* C14: the request signature for apiKey 97a55694-5478-43b5-b406-fb49ebfdd2b5,
\* idempotencyKey d243fdb3-c287-484a-bb9c-58536f2794c1, empty body and empty
\* parameters under signatureKey b305b996-bca5-4404-a0b7-2ccea3d2b64b is
\* fXwLZRwo0WiGll90PPl5oULX9VKA0gpFA/3+E+NRp5E=, the base64 of the HMAC-SHA256
\* of the compact JSON with the keys headers, parameters, body in that order.
C14_KnownVector ==
    pcall.op = "_calculate_request_signature: known vector"
        => pcall.result = "fXwLZRwo0WiGll90PPl5oULX9VKA0gpFA/3+E+NRp5E="

\* the vector was signed: these keys, no body, no parameters
C14_Witness ==
    /\ pcall.op = "_calculate_request_signature: known vector"
    /\ pcall.api_key = "97a55694-5478-43b5-b406-fb49ebfdd2b5"
    /\ pcall.idempotency_key = "d243fdb3-c287-484a-bb9c-58536f2794c1"
    /\ pcall.signature_key = "b305b996-bca5-4404-a0b7-2ccea3d2b64b"
    /\ pcall.body = ""
    /\ pcall.parameters = <<>>
    /\ pcall.result = KnownVectorSignature

(***************************************************************************)
(* Properties of the amount conversions (specification SpecAmount).        *)
(***************************************************************************)
\* the int ds and the Decimal d denote the same number
SameValue(ds, d) ==
    IF d.exp >= 0 THEN ds = strip_leading(d.int \o Zeros(d.exp))
    ELSE strip_leading(ds \o Zeros(0 - d.exp)) = strip_leading(d.int)

\* C15: for every non-negative integer minor-unit amount x,
\* _to_lowest_unit(_from_lowest_unit(x)) == x.
C15_RoundTrip ==
    pcall.op = "round_trip" => pcall.result = pcall.amount

\* what the code guarantees: the round trip is exact up to prec digits
RoundTripExactWithinPrecision ==
    (pcall.op = "round_trip" /\ Len(pcall.amount) <= prec) => pcall.result = pcall.amount

\* C16: the conversion of a decimal amount to minor units is exact: the integer
\* equals amount * 100, nothing truncated and nothing rounded away.
C16_ToLowestUnitExact ==
    pcall.op = "_to_lowest_unit"
        => SameValue(pcall.result, Dec(pcall.amount.int, pcall.amount.exp + 2))

\* what the code guarantees: amounts of at most two decimal places convert exactly
ToLowestUnitExactForTwoPlaces ==
    (pcall.op = "_to_lowest_unit" /\ pcall.amount.exp >= -2)
        => SameValue(pcall.result, Dec(pcall.amount.int, pcall.amount.exp + 2))

(***************************************************************************)
(* Properties of the client operations (specification SpecClient).         *)
(***************************************************************************)
\* an operation has ended
Ended == IF ccall.op = "none" THEN FALSE ELSE ccall.pc = "done"
\* an operation has ended on a response of the gateway
Answered == Ended /\ ccall.response /= NoResponse

Operations ==
    {"create_payment", "get_payment_status", "create_refund", "get_refund_status",
     "cancel_refund", "get_payment_methods"}

\* C17: on each of the six operations a 401 response raises CredentialsError,
\* never CommunicationError or RefundFailure.
C17_UnauthorizedIsCredentialsError ==
    (Answered /\ ccall.op \in Operations /\ ccall.response.status_code = 401)
        => ccall.outcome.exc = "CredentialsError"

\* create_refund, which does not go through _handle_error, was answered 401
C17_Witness ==
    /\ Answered
    /\ ccall.op = "create_refund"
    /\ ccall.response.status_code = 401
    /\ ccall.outcome.exc = "CredentialsError"

\* C18: a response to create_refund that is neither a success (200/201) nor 401
\* raises RefundFailure, never CommunicationError; a response with such a status
\* to get_payment_status or get_refund_status raises CommunicationError, never
\* RefundFailure.
C18_RefundFailureOnlyOnCreateRefund ==
    (Answered /\ ccall.response.status_code \notin {200, 201, 401})
        => /\ ccall.op = "create_refund" => ccall.outcome.exc = "RefundFailure"
           /\ ccall.op \in {"get_payment_status", "get_refund_status"}
                 => ccall.outcome.exc = "CommunicationError"

\* a refund was refused with a validation error
C18_Witness ==
    /\ Answered
    /\ ccall.op = "create_refund"
    /\ ccall.response.status_code = 400
    /\ ccall.outcome.exc = "RefundFailure"

\* the statuses on which each operation succeeds
SuccessStatuses(op) ==
    CASE op \in {"create_payment", "create_refund"} -> {200, 201}
      [] op \in {"get_payment_status", "get_refund_status", "get_payment_methods"} -> {200}
      [] op = "cancel_refund" -> {200, 202}

TypedErrors == {"CredentialsError", "CommunicationError", "RefundFailure"}

\* C19: an operation returns normally only on one of its own success statuses;
\* on every other status, other 2xx codes included, it raises a typed error.
C19_ReturnsOnlyOnSuccessStatus ==
    Answered =>
        /\ ccall.outcome.exc = "none"
              => ccall.response.status_code \in SuccessStatuses(ccall.op)
        /\ ccall.response.status_code \notin SuccessStatuses(ccall.op)
              => ccall.outcome.exc \in TypedErrors

\* a 2xx status that is not a success of the operation raised an error
C19_Witness ==
    /\ Answered
    /\ ccall.op = "get_payment_status"
    /\ ccall.response.status_code = 201
    /\ ccall.outcome.exc = "CommunicationError"

\* C20: every send carries a new idempotency key: no two requests handed to the
\* transport share their Idempotency-Key, repeated calls with the same arguments
\* included, and the key in the header is the key the Signature was computed
\* over.
C20_FreshSignedIdempotencyKey ==
    /\ \A i, j \in 1..Len(wire) :
          i /= j => wire[i].headers["Idempotency-Key"] /= wire[j].headers["Idempotency-Key"]
    /\ \A i \in 1..Len(wire) :
          wire[i].headers["Signature"] =
              calculate_request_signature(KeyName(1), wire[i].headers["Api-Key"],
                  wire[i].headers["Idempotency-Key"], or_empty(wire[i].content),
                  str_params(wire[i].params))

\* the same call was made twice
C20_Witness ==
    /\ Len(wire) >= 2
    /\ wire[1].method = wire[2].method
    /\ wire[1].url = wire[2].url
    /\ wire[1].content = wire[2].content
    /\ ~wire[1].content.none
    /\ wire[1].headers["Idempotency-Key"] /= wire[2].headers["Idempotency-Key"]

(***************************************************************************)
(* Properties of the processor's methods (specification SpecProc).         *)
(***************************************************************************)
Finished(method) == last.op = method /\ last.pc = "done"
ReturnedFrom(method) == Finished(method) /\ last.outcome.exc = "none"

\* the object the gateway answered the method's request with
Answer == loads(ccall.response.content)

\* C22: fetch_payment_status proposes a transition for the gateway's payment
\* status by a fixed total table: NEW none, PENDING confirm_prepared,
\* CONFIRMED confirm_payment, REJECTED, ERROR, EXPIRED and ABANDONED fail; a
\* status outside the seven, or none at all, gives none.
C22_PullTable ==
    ReturnedFrom("fetch_payment_status") =>
        LET st == Get(Answer, "status", "")
        IN  last.outcome.value.status =
                CASE st = "NEW" -> None
                  [] st = "PENDING" -> "confirm_prepared"
                  [] st = "CONFIRMED" -> "confirm_payment"
                  [] st \in {"REJECTED", "ERROR", "EXPIRED", "ABANDONED"} -> "fail"
                  [] OTHER -> None

\* the gateway reported ABANDONED and fail was proposed
C22_Witness ==
    /\ ReturnedFrom("fetch_payment_status")
    /\ Get(Answer, "status", "") = "ABANDONED"
    /\ last.outcome.value.status = "fail"

\* C23: charge and release_lock fail with NotImplementedError whatever the
\* payment's state and whatever the argument, send no request and leave the
\* payment as it was.
C23_ChargeAndReleaseNotImplemented ==
    last.op \in {"charge", "release_lock"}
        => /\ last.pc = "done"
           /\ last.outcome.exc = "NotImplementedError"
           /\ payment = last.pre
           /\ Len(wire) = last.sent

\* charge called with an amount for a PAID payment
C23_Witness ==
    /\ Finished("charge")
    /\ ~last.amount.none /\ TruthyDecimal(last.amount.value)
    /\ last.pre.status = "PAID" /\ payment.status = "PAID"
    /\ last.outcome.exc = "NotImplementedError"
    /\ wire = <<>>

\* C24: on a successful answer to create-payment, prepare_transaction returns
\* a result whose redirect_url is the answer's redirectUrl, with method GET
\* and form_data None, and sets the payment's external_id to the answer's
\* paymentId; the payment's FSM state is not changed.  The answer's paymentId
\* is what the answer carries: one that is absent or empty sets nothing.
C24_PrepareTransaction ==
    (Finished("prepare_transaction") /\ ccall.outcome.exc = "none")
        => /\ last.outcome.exc = "none"
           /\ last.outcome.value.redirect_url = Get(Answer, "redirectUrl", "")
           /\ last.outcome.value.method = "GET"
           /\ last.outcome.value.form_data = None
           /\ Get(Answer, "paymentId", "") /= ""
                 => payment.external_id = Answer["paymentId"]
           /\ payment.status = last.pre.status

\* a 201 with redirectUrl and paymentId for a NEW payment that bore another id
C24_Witness ==
    /\ ReturnedFrom("prepare_transaction")
    /\ ccall.response = Response(201, dumps(MkDict({"paymentId", "redirectUrl", "status"},
                                                   IdName(2), RedirectUrl, "", "NEW")))
    /\ last.pre.status = "NEW" /\ last.pre.external_id = IdName(1)
    /\ payment.external_id = IdName(2) /\ payment.status = "NEW"
    /\ last.outcome.value.redirect_url = RedirectUrl

\* C25: after start_refund succeeds, the payment's external_refund_id is the
\* refundId of the gateway's answer to create-refund.
C25_RefundIdRecorded ==
    (ReturnedFrom("start_refund") /\ "refundId" \in DOMAIN Answer)
        => payment.external_refund_id = Answer["refundId"]

\* start_refund leaves the payment as it found it, external_refund_id included
StartRefundLeavesPayment ==
    Finished("start_refund") => payment = last.pre

\* C26: start_refund called with an amount requests a refund of exactly that
\* amount and returns it, for every amount supplied; only with no amount
\* supplied does it refund and return payment.amount_paid.
C26_RefundsSuppliedAmount ==
    last.op = "start_refund" =>
        LET expected == IF last.amount.none THEN last.pre.amount_paid
                        ELSE last.amount.value
        IN  /\ wire[last.sent + 1].content = RefundBody(to_lowest_unit(expected))
            /\ ReturnedFrom("start_refund") => last.outcome.value = expected

\* an amount that is not zero is the amount refunded and returned; no amount
\* and a zero amount both stand for payment.amount_paid
StartRefundAmountOrAmountPaid ==
    last.op = "start_refund" =>
        LET expected == IF last.amount.none \/ IsZero(last.amount.value.int)
                        THEN last.pre.amount_paid
                        ELSE last.amount.value
        IN  /\ wire[last.sent + 1].content = RefundBody(to_lowest_unit(expected))
            /\ ReturnedFrom("start_refund") => last.outcome.value = expected

====
